---- MODULE Spec2Model ----
(***************************************************************************)
(* A model of analytics_project: the DataValidator checks of               *)
(* src/validation.py and the YouTubeAnalyzer operations of src/analysis.py *)
(* over a small in-memory table (a pandas DataFrame).                      *)
(*                                                                         *)
(* A table is [columns |-> <<name, ...>>, rows |-> <<row, ...>>], a row    *)
(* being a sequence of cells aligned with the columns.  A cell is a        *)
(* number, a text or the missing marker (NaN).                             *)
(***************************************************************************)
EXTENDS Integers, Sequences, FiniteSets, TLC

VARIABLES df, hashseed, op, args, result

vars == <<df, hashseed, op, args, result>>

----------------------------------------------------------------------------
(* Bounds of the model *)

\* most rows of a table of the validator and analyzer specifications
MaxRows == 2

\* most rows of the one-column text table of the data-type probe
MaxTextRows == 11

\* largest n passed to get_top_performers
MaxN == 3

\* most rows of the one-column tables of the outlier specification (the
\* six-row example table apart)
MaxOutlierRows == 5

----------------------------------------------------------------------------
(* Cells *)

Num(i) == [t |-> "num", n |-> i, s |-> ""]
Str(x) == [t |-> "str", n |-> 0, s |-> x]
NA == [t |-> "na", n |-> 0, s |-> ""]

isnull(v) == v.t = "na"
IsStr(v) == v.t = "str"
IsNum(v) == v.t = "num"

\* pd.to_numeric(..., errors='coerce') on one cell: a text that is a number
\* parses, any other text becomes missing
to_numeric(v) ==
    IF v.t = "str"
    THEN CASE v.s = "7" -> Num(7)
           [] v.s = "-3" -> Num(0 - 3)
           [] OTHER -> NA
    ELSE v

----------------------------------------------------------------------------
(* Tables *)

RECURSIVE SumSeq(_)
SumSeq(s) == IF s = <<>> THEN 0 ELSE Head(s) + SumSeq(Tail(s))

RECURSIVE SelectIdx(_)
\* the positions of the set S in ascending order (boolean indexing keeps
\* the order of the index)
SelectIdx(S) ==
    IF S = {} THEN <<>>
    ELSE LET first == CHOOSE x \in S : \A y \in S : x <= y
         IN <<first>> \o SelectIdx(S \ {first})

NRows(d) == Len(d.rows)
NCols(d) == Len(d.columns)

HasColumn(d, c) == \E i \in 1..NCols(d) : d.columns[i] = c

\* position of the (first) column named c
ColIdx(d, c) == CHOOSE i \in 1..NCols(d) :
                   /\ d.columns[i] = c
                   /\ \A j \in 1..(i - 1) : d.columns[j] # c

HasStr(d, i) == \E r \in 1..NRows(d) : IsStr(d.rows[r][i])

\* dtype of column i as read_csv infers it (a column of quotients is float64)
dtype(d, i) ==
    IF NRows(d) = 0 \/ HasStr(d, i) THEN "object"
    ELSE IF \E r \in 1..NRows(d) : ~IsNum(d.rows[r][i]) THEN "float64"
    ELSE "int64"

\* a variant of NullCount that reports whether the column has a missing cell
\* (.any() for .sum())
NullCount_Any(d, i) ==
    IF \E r \in 1..NRows(d) : isnull(d.rows[r][i]) THEN 1 ELSE 0

\* df.isnull().sum() for column i
NullCount(d, i) == Cardinality({r \in 1..NRows(d) : isnull(d.rows[r][i])})

\* f"{x*100:.1f}" of the fraction m/n, in tenths of a percent (round half
\* to even, as the formatting of an exactly representable tie does)
Tenths(m, n) ==
    LET q == (1000 * m) \div n
        r == (1000 * m) % n
    IN IF 2 * r > n \/ (2 * r = n /\ q % 2 = 1) THEN q + 1 ELSE q

----------------------------------------------------------------------------
(* ValidationResult *)

\* the f-string templates of the issue and warning lines; a line is the
\* template with the values it formats (Msg)
MissingHeaderMsg == "Found {n} columns with >{lo/hi}% missing values"
MissingColumnMsg == "  - {col}: {pct}% missing"
DuplicatesMsg == "Found {n} duplicate rows ({pct}%)"
TypeMismatchMsg == "Column '{col}' has type '{names[1]}', expected '{names[2]}'"
CouldBeNumericMsg == "Column '{col}' is object type but could be numeric ({pct}% convertible)"
OutOfRangeMsg == "Column '{col}' has {n} values outside range [{lo}, {hi}]"
NegativeMsg == "Column '{col}' has {n} negative values"
MissingRequiredMsg == "Missing required columns: {names}"

\* one line of issues or warnings: the template and the values it formats
Msg(kind, col, n, pct, lo, hi, names) ==
    [kind |-> kind, col |-> col, n |-> n, pct |-> pct,
     lo |-> lo, hi |-> hi, names |-> names]

ValidationResult(passed, issues, warnings, stats) ==
    [raised |-> "", passed |-> passed, issues |-> issues,
     warnings |-> warnings, stats |-> stats]

\* the call ended with an exception of type e instead of a result
Raise(e) ==
    [raised |-> e, passed |-> FALSE, issues |-> <<>>,
     warnings |-> <<>>, stats |-> <<>>]

Returned(res) == res.raised = ""

\* a dict as the sequence of its <<key, value>> items in insertion order
DictHas(dict, k) == \E i \in 1..Len(dict) : dict[i][1] = k
DictGet(dict, k) == dict[CHOOSE i \in 1..Len(dict) : dict[i][1] = k][2]
DictSet(dict, k, v) ==
    IF DictHas(dict, k)
    THEN [i \in 1..Len(dict) |-> IF dict[i][1] = k THEN <<k, v>> ELSE dict[i]]
    ELSE Append(dict, <<k, v>>)

RECURSIVE DictUpdate(_, _)
\* dict.update(other)
DictUpdate(dict, other) ==
    IF other = <<>> THEN dict
    ELSE DictUpdate(DictSet(dict, Head(other)[1], Head(other)[2]), Tail(other))

----------------------------------------------------------------------------
(* DataValidator: the checks *)

\* a variant of PctGreater that compares with >= for >
PctGreater_OrEqual(d, i, thr) ==
    /\ NRows(d) > 0
    /\ NullCount(d, i) * thr[2] >= thr[1] * NRows(d)

\* missing_pct[i] > x for the fraction x = thr[1]/thr[2]; missing_pct is
\* NaN on a table without rows, and NaN > x is false
PctGreater(d, i, thr) ==
    /\ NRows(d) > 0
    /\ NullCount(d, i) * thr[2] > thr[1] * NRows(d)

\* the columns of missing_pct[missing_pct > threshold], in column order
high_missing(d, thr) ==
    SelectIdx({i \in 1..NCols(d) : PctGreater(d, i, thr)})

check_missing_values(d, thr) ==
    LET high == high_missing(d, thr)
        header == Msg(MissingHeaderMsg,
                      "", Len(high), 0, thr[1], thr[2], <<>>)
        lines == [k \in 1..Len(high) |->
                     Msg(MissingColumnMsg, d.columns[high[k]], 0,
                         Tenths(NullCount(d, high[k]), NRows(d)), 0, 0, <<>>)]
        total == SumSeq([i \in 1..NCols(d) |-> NullCount(d, i)])
        withMissing == SelectIdx({i \in 1..NCols(d) : PctGreater(d, i, <<0, 1>>)})
    IN ValidationResult(
          Len(high) = 0,
          IF Len(high) > 0 THEN <<header>> \o lines ELSE <<>>,
          <<>>,
          << <<"total_missing", total>>,
             <<"columns_with_missing", Len(withMissing)>> >>)

\* a variant of duplicated that marks every row that has an equal row
\* (keep=False)
duplicated_KeepFalse(d) ==
    {r \in 1..NRows(d) : \E q \in 1..NRows(d) : q # r /\ d.rows[q] = d.rows[r]}

\* df.duplicated(): the rows equal, in every column, to an earlier row
duplicated(d) ==
    {r \in 1..NRows(d) : \E q \in 1..(r - 1) : d.rows[q] = d.rows[r]}

check_duplicates(d) ==
    LET n_duplicates == Cardinality(duplicated(d))
    IN ValidationResult(
          TRUE,
          <<>>,
          IF n_duplicates > 0
          THEN <<Msg(DuplicatesMsg, "", n_duplicates,
                     Tenths(n_duplicates, NRows(d)), 0, 0, <<>>)>>
          ELSE <<>>,
          << <<"n_duplicates", n_duplicates>> >>)

\* expected_type in actual_type, for the type names of the model
TypeNameIn(expected, actual) ==
    \/ expected = actual
    \/ expected = "int" /\ actual = "int64"
    \/ expected = "float" /\ actual = "float64"
    \/ expected = "64" /\ actual \in {"int64", "float64"}

RECURSIVE ExpectedLoop(_, _, _)
\* lines 67-72 for the items of expected_types that remain
ExpectedLoop(d, expected, acc) ==
    IF expected = <<>> THEN acc
    ELSE LET col == Head(expected)[1]
             expected_type == Head(expected)[2]
             actual_type == dtype(d, ColIdx(d, col))
         IN IF HasColumn(d, col) /\ ~TypeNameIn(expected_type, actual_type)
            THEN ExpectedLoop(d, Tail(expected),
                    [acc EXCEPT !.passed = FALSE,
                                !.issues = Append(@,
                                   Msg(TypeMismatchMsg,
                                       col, 0, 0, 0, 0,
                                       <<actual_type, expected_type>>))])
            ELSE ExpectedLoop(d, Tail(expected), acc)

\* numeric_vals.notna().sum() of the coerced column i
ConvertibleCount(d, i) ==
    Cardinality({r \in 1..NRows(d) : ~isnull(to_numeric(d.rows[r][i]))})

\* a variant of CouldBeNumeric that compares with >= for >
CouldBeNumeric_AtLeast(d, i) ==
    /\ NRows(d) > 0
    /\ 10 * ConvertibleCount(d, i) >= 9 * NRows(d)

\* non_null_pct > 0.9; the quotient is NaN on a table without rows
CouldBeNumeric(d, i) ==
    /\ NRows(d) > 0
    /\ 10 * ConvertibleCount(d, i) > 9 * NRows(d)

check_data_types(d, expected) ==
    LET typed == ExpectedLoop(d, expected, ValidationResult(TRUE, <<>>, <<>>, <<>>))
        objectCols == SelectIdx({i \in 1..NCols(d) : dtype(d, i) = "object"})
        probed == SelectIdx({k \in 1..Len(objectCols) :
                                CouldBeNumeric(d, objectCols[k])})
    IN [typed EXCEPT !.warnings =
          [k \in 1..Len(probed) |->
             Msg(CouldBeNumericMsg,
                 d.columns[objectCols[probed[k]]], 0,
                 Tenths(ConvertibleCount(d, objectCols[probed[k]]), NRows(d)),
                 0, 0, <<>>)]]

\* an ordering comparison of column i with a number raises TypeError when a
\* cell holds text ('<' not supported between instances of 'str' and 'int')
CompareRaises(d, i) == HasStr(d, i)

\* ((col < min_val) | (col > max_val)).sum(): a missing cell compares false
OutOfRange(d, i, lo, hi) ==
    Cardinality({r \in 1..NRows(d) :
                    /\ IsNum(d.rows[r][i])
                    /\ (d.rows[r][i].n < lo \/ d.rows[r][i].n > hi)})

\* (col < 0).sum()
NegativeCount(d, i) ==
    Cardinality({r \in 1..NRows(d) : IsNum(d.rows[r][i]) /\ d.rows[r][i].n < 0})

RECURSIVE RangeLoop(_, _, _)
\* lines 93-97 for the items of ranges that remain
RangeLoop(d, ranges, acc) ==
    IF ranges = <<>> \/ ~Returned(acc) THEN acc
    ELSE LET col == Head(ranges)[1]
             min_val == Head(ranges)[2]
             max_val == Head(ranges)[3]
         IN IF ~HasColumn(d, col) THEN RangeLoop(d, Tail(ranges), acc)
            ELSE IF CompareRaises(d, ColIdx(d, col)) THEN Raise("TypeError")
            ELSE LET out_of_range == OutOfRange(d, ColIdx(d, col), min_val, max_val)
                 IN RangeLoop(d, Tail(ranges),
                       IF out_of_range > 0
                       THEN [acc EXCEPT !.warnings = Append(@,
                               Msg(OutOfRangeMsg,
                                   col, out_of_range, 0, min_val, max_val, <<>>))]
                       ELSE acc)

positive_cols == <<"subscribers", "video views", "uploads">>

RECURSIVE PositiveLoop(_, _, _)
\* lines 101-106 for the columns of positive_cols that remain
PositiveLoop(d, cols, acc) ==
    IF cols = <<>> \/ ~Returned(acc) THEN acc
    ELSE LET col == Head(cols)
         IN IF ~HasColumn(d, col) THEN PositiveLoop(d, Tail(cols), acc)
            ELSE IF CompareRaises(d, ColIdx(d, col)) THEN Raise("TypeError")
            ELSE LET negative == NegativeCount(d, ColIdx(d, col))
                 IN PositiveLoop(d, Tail(cols),
                       IF negative > 0
                       THEN [acc EXCEPT !.passed = FALSE,
                                        !.issues = Append(@,
                                           Msg(NegativeMsg,
                                               col, negative, 0, 0, 0, <<>>))]
                       ELSE acc)

check_value_ranges(d, ranges) ==
    PositiveLoop(d, positive_cols,
                 RangeLoop(d, ranges, ValidationResult(TRUE, <<>>, <<>>, <<>>)))

\* the names the model uses, in the order that stands for one hash order
NameOrder ==
    <<"Youtuber", "subscribers", "video views", "uploads", "category", "Country">>

Rank(c) == CHOOSE i \in 1..Len(NameOrder) : NameOrder[i] = c

\* the hash seeds of the model: str hashes are salted anew in every
\* interpreter process, and the iteration order of a set of str follows them
HashSeeds == {0, 1}

RECURSIVE SetIter(_, _)
\* the elements of the set S of names in the order a run with hash seed
\* seed iterates them
SetIter(S, seed) ==
    IF S = {} THEN <<>>
    ELSE LET first == CHOOSE c \in S :
                         \A e \in S : IF seed = 0 THEN Rank(c) <= Rank(e)
                                                  ELSE Rank(c) >= Rank(e)
         IN <<first>> \o SetIter(S \ {first}, seed)

SeqToSet(q) == {q[i] : i \in 1..Len(q)}

check_required_columns(d, required, seed) ==
    LET missing == SeqToSet(required) \ SeqToSet(d.columns)
    IN IF missing # {}
       THEN ValidationResult(
               FALSE,
               <<Msg(MissingRequiredMsg, "", 0, 0, 0, 0,
                     SetIter(missing, seed))>>,
               <<>>, <<>>)
       ELSE ValidationResult(TRUE, <<>>, <<>>, <<>>)

\* all_results of validate_all, in the order of the calls (lines 128-144)
all_results(d, required, expected, ranges, thr, seed) ==
    (IF required # <<>>
     THEN <<check_required_columns(d, required, seed)>> ELSE <<>>)
    \o <<check_missing_values(d, thr),
         check_duplicates(d),
         check_data_types(d, expected),
         check_value_ranges(d, ranges)>>

\* a variant of MergeOne in which the last check decides passed
MergeOne_LastWins(final, res) ==
    [raised |-> "",
     passed |-> res.passed,
     issues |-> final.issues \o res.issues,
     warnings |-> final.warnings \o res.warnings,
     stats |-> DictUpdate(final.stats, res.stats)]

\* one pass of the loop of lines 149-154
MergeOne(final, res) ==
    [raised |-> "",
     passed |-> IF ~res.passed THEN FALSE ELSE final.passed,
     issues |-> final.issues \o res.issues,
     warnings |-> final.warnings \o res.warnings,
     stats |-> DictUpdate(final.stats, res.stats)]

RECURSIVE Aggregate(_, _)
Aggregate(final, results) ==
    IF results = <<>> THEN final
    ELSE Aggregate(MergeOne(final, Head(results)), Tail(results))

validate_all(d, required, expected, ranges, thr, seed) ==
    LET results == all_results(d, required, expected, ranges, thr, seed)
    IN IF \E i \in 1..Len(results) : ~Returned(results[i])
       THEN \* the exception of the first failing call leaves validate_all
            results[CHOOSE i \in 1..Len(results) :
                      /\ ~Returned(results[i])
                      /\ \A j \in 1..(i - 1) : Returned(results[j])]
       ELSE Aggregate(ValidationResult(TRUE, <<>>, <<>>, <<>>), results)

----------------------------------------------------------------------------
(* The tables and arguments of the model *)

\* the values a cell of the column named c takes
ColumnValues(c) ==
    CASE c = "Youtuber" -> {Str("A"), Str("B")}
      [] c = "subscribers" -> {Num(0 - 1), Num(1), Str("x")}
      [] c = "video views" -> {NA, Num(0 - 1), Num(0)}
      [] c = "uploads" -> {NA, Num(2), Str("7")}
      [] c = "category" -> {Str("Music"), Str("Gaming")}
      [] OTHER -> {Str("A")}

Schemas ==
    { <<>>,
      <<"subscribers">>,
      <<"video views", "subscribers">>,
      <<"uploads", "video views">>,
      <<"uploads", "Youtuber">> }

RowsOf(schema) ==
    {row \in [1..Len(schema) -> UNION {ColumnValues(schema[i]) : i \in 1..Len(schema)}] :
        \A i \in 1..Len(schema) : row[i] \in ColumnValues(schema[i])}

\* a column read from a file holds numbers or texts, never both
WellFormed(d) ==
    \A i \in 1..NCols(d) :
        ~(HasStr(d, i) /\ \E r \in 1..NRows(d) : IsNum(d.rows[r][i]))

TablesOf(schema, k) ==
    {d \in {[columns |-> schema, rows |-> rs] : rs \in [1..k -> RowsOf(schema)]} :
        WellFormed(d)}

\* a table without columns has no rows
TablesUpTo(schema, maxRows) ==
    UNION {TablesOf(schema, k) : k \in 0..(IF schema = <<>> THEN 0 ELSE maxRows)}

Tables == UNION {TablesUpTo(schema, MaxRows) : schema \in Schemas}

\* thresholds as fractions <<numerator, denominator>>
Thresholds == {<<0, 1>>, <<1, 3>>, <<1, 2>>, <<1, 1>>}
DefaultThreshold == <<1, 2>>

\* ranges as the items <<column, min, max>> of the dict; <<>> is None
RangeArgs ==
    { <<>>,
      << <<"video views", 0, 0>> >>,
      << <<"category", 0, 1>>, <<"uploads", 0, 1>>, <<"subscribers", 1, 1>> >> }

\* expected_types as the items <<column, type name>>; <<>> is None
ExpectedArgs ==
    { <<>>,
      << <<"video views", "int">>, <<"Youtuber", "object">>, <<"category", "int">> >> }

RequiredArgs ==
    { <<"subscribers">>,
      <<"video views", "subscribers">>,
      <<"subscribers", "category", "Country">> }

\* the arguments of a call, each at its default
NoArgs ==
    [threshold |-> DefaultThreshold, expected |-> <<>>, ranges |-> <<>>,
     required |-> <<>>, metric |-> "subscribers", n |-> 10, method |-> "iqr"]

\* the argument lists validate_all is called with
ValidateAllArgs ==
    LET R3 == <<"subscribers", "category", "Country">>
        E3 == << <<"video views", "int">>, <<"Youtuber", "object">>,
                 <<"category", "int">> >>
        G3 == << <<"category", 0, 1>>, <<"uploads", 0, 1>>,
                 <<"subscribers", 1, 1>> >>
    IN { NoArgs,
         [NoArgs EXCEPT !.required = R3],
         [NoArgs EXCEPT !.threshold = <<0, 1>>, !.expected = E3],
         [NoArgs EXCEPT !.threshold = <<0, 1>>, !.ranges = G3, !.required = R3],
         [NoArgs EXCEPT !.expected = E3, !.ranges = G3, !.required = R3] }

----------------------------------------------------------------------------
(* YouTubeAnalyzer *)

\* str.strip() on the column names of the model
Strip(c) ==
    CASE c = " subscribers " -> "subscribers"
      [] OTHER -> c

numeric_cols == <<"subscribers", "video views", "uploads">>

RECURSIVE CoerceLoop(_, _)
\* lines 25-27 for the columns of numeric_cols that remain
CoerceLoop(d, cols) ==
    IF cols = <<>> THEN d
    ELSE IF HasColumn(d, Head(cols))
         THEN CoerceLoop(
                 [d EXCEPT !.rows =
                    [r \in 1..NRows(d) |->
                       [d.rows[r] EXCEPT ![ColIdx(d, Head(cols))] = to_numeric(@)]]],
                 Tail(cols))
         ELSE CoerceLoop(d, Tail(cols))

prepare_data(d) ==
    LET coerced == CoerceLoop(d, numeric_cols)
    IN [coerced EXCEPT !.columns = [i \in 1..NCols(d) |-> Strip(d.columns[i])]]

\* what an analyzer operation returns: a frame (the columns, the rows and
\* the positions the rows have in the working table), or an exception
Frame(columns, rows, index) ==
    [raised |-> "", columns |-> columns, rows |-> rows, index |-> index]

RaiseFrame(e) ==
    [raised |-> e, columns |-> <<>>, rows |-> <<>>, index |-> <<>>]

\* row q comes before row r in df.nlargest(n, column i): larger values
\* first, equal values in row order (keep='first'), missing values last
ComesBefore(d, i, q, r) ==
    LET a == d.rows[q][i]
        b == d.rows[r][i]
    IN \/ IsNum(a) /\ IsNum(b) /\ (a.n > b.n \/ (a.n = b.n /\ q < r))
       \/ IsNum(a) /\ isnull(b)
       \/ isnull(a) /\ isnull(b) /\ q < r

\* the row positions of df.nlargest(n, column i)
nlargest(d, n, i) ==
    LET m == IF n < NRows(d) THEN n ELSE NRows(d)
    IN [k \in 1..(IF n <= 0 THEN 0 ELSE m) |->
          CHOOSE r \in 1..NRows(d) :
             Cardinality({q \in 1..NRows(d) : ComesBefore(d, i, q, r)}) = k - 1]

get_top_performers(d, metric, n) ==
    IF ~HasColumn(d, metric) THEN RaiseFrame("ValueError")
    ELSE IF dtype(d, ColIdx(d, metric)) = "object"
         THEN \* nlargest: cannot use method 'nlargest' with this dtype
              RaiseFrame("TypeError")
    ELSE IF ~HasColumn(d, "Youtuber") \/ ~HasColumn(d, "category")
         THEN \* the projection names a column that is not in the index
              RaiseFrame("KeyError")
    ELSE LET top == nlargest(d, n, ColIdx(d, metric))
             proj == <<ColIdx(d, "Youtuber"), ColIdx(d, "category"),
                       ColIdx(d, metric)>>
         IN Frame(<<"Youtuber", "category", metric>>,
                  [k \in 1..Len(top) |-> [j \in 1..3 |-> d.rows[top[k]][proj[j]]]],
                  top)

----------------------------------------------------------------------------
(* Floats that are not integers: quotients, bounds and percentages *)

Abs(x) == IF x < 0 THEN 0 - x ELSE x

RECURSIVE GCD(_, _)
GCD(a, b) == IF b = 0 THEN a ELSE GCD(b, a % b)

\* the float p/q (q > 0), kept as the fraction in lowest terms
Ratio(p, q) ==
    LET g == GCD(Abs(p), q)
    IN [t |-> "ratio", n |-> p \div g, s |-> "", d |-> q \div g]

\* float('inf') for sign = 1, float('-inf') for sign = -1
Inf(sign) == [t |-> "inf", n |-> sign, s |-> ""]

IsRatio(v) == v.t = "ratio"
IsInf(v) == v.t = "inf"

----------------------------------------------------------------------------
(* outlier_detection *)

\* self.df[column].dropna() of a numeric column: the values in row order
dropna(d, i) ==
    LET idx == SelectIdx({r \in 1..NRows(d) : IsNum(d.rows[r][i])})
    IN [k \in 1..Len(idx) |-> d.rows[idx[k]][i].n]

RemoveAt(s, i) == [k \in 1..(Len(s) - 1) |-> IF k < i THEN s[k] ELSE s[k + 1]]

RECURSIVE SortValues(_)
\* the values of s in ascending order
SortValues(s) ==
    IF s = <<>> THEN <<>>
    ELSE LET i == CHOOSE i \in 1..Len(s) : \A j \in 1..Len(s) : s[i] <= s[j]
         IN <<s[i]>> \o SortValues(RemoveAt(s, i))

\* a variant of quantile with interpolation='lower': the value at the
\* position below the fractional position
quantile_Lower(data, k) ==
    LET v == SortValues(data)
        h == k * (Len(v) - 1)
    IN 4 * v[(h \div 4) + 1]

\* 4 * data.quantile(k/4): the value at the fractional position
\* (len - 1) * k/4 of the sorted values, interpolated linearly between its
\* two neighbours
quantile(data, k) ==
    LET v == SortValues(data)
        h == k * (Len(v) - 1)
        j == (h \div 4) + 1
        f == h % 4
    IN IF f = 0 THEN 4 * v[j] ELSE 4 * v[j] + f * (v[j + 1] - v[j])

OutlierMethods == {"iqr", "zscore"}

\* what outlier_detection returns: the frame of outliers and the stats dict
OutlierResult(frame, stats) ==
    [raised |-> "", columns |-> frame.columns, rows |-> frame.rows,
     index |-> frame.index, stats |-> stats]

RaiseOutlier(e) ==
    [raised |-> e, columns |-> <<>>, rows |-> <<>>, index |-> <<>>,
     stats |-> <<>>]

\* self.df[mask]: the rows at the positions of the set S, all columns
RowsAt(d, S) ==
    LET idx == SelectIdx(S)
    IN Frame(d.columns, [k \in 1..Len(idx) |-> d.rows[idx[k]]], idx)

\* len(outliers) / len(self.df) * 100
pct_outliers(d, S) == Ratio(100 * Cardinality(S), NRows(d))

\* lines 107-121; the bounds are kept as eighths
outliers_iqr(d, i) ==
    LET data == dropna(d, i)
    IN IF data = <<>>
       THEN \* the quantiles of no value are NaN and no comparison holds
            OutlierResult(RowsAt(d, {}),
               << <<"method", "IQR">>, <<"lower_bound", NA>>,
                  <<"upper_bound", NA>>, <<"n_outliers", 0>>,
                  <<"pct_outliers", pct_outliers(d, {})>> >>)
       ELSE LET Q1 == quantile(data, 1)
                Q3 == quantile(data, 3)
                lower == 5 * Q1 - 3 * Q3
                upper == 5 * Q3 - 3 * Q1
                S == {r \in 1..NRows(d) :
                         /\ IsNum(d.rows[r][i])
                         /\ \/ 8 * d.rows[r][i].n < lower
                            \/ 8 * d.rows[r][i].n > upper}
            IN OutlierResult(RowsAt(d, S),
                  << <<"method", "IQR">>, <<"lower_bound", Ratio(lower, 8)>>,
                     <<"upper_bound", Ratio(upper, 8)>>,
                     <<"n_outliers", Cardinality(S)>>,
                     <<"pct_outliers", pct_outliers(d, S)>> >>)

\* lines 123-134: |x - mean| / std > 3 with the sample deviation (ddof=1);
\* with fewer than two values or equal values the quotient is NaN and no
\* comparison holds
outliers_zscore(d, i) ==
    LET data == dropna(d, i)
        n == Len(data)
        total == SumSeq(data)
        ss == SumSeq([k \in 1..n |-> (n * data[k] - total) * (n * data[k] - total)])
        S == IF n < 2 \/ ss = 0 THEN {}
             ELSE {r \in 1..NRows(d) :
                      /\ IsNum(d.rows[r][i])
                      /\ (n * d.rows[r][i].n - total) * (n * d.rows[r][i].n - total)
                            * (n - 1) > 9 * ss}
    IN OutlierResult(RowsAt(d, S),
          << <<"method", "Z-score">>, <<"threshold", 3>>,
             <<"n_outliers", Cardinality(S)>>,
             <<"pct_outliers", pct_outliers(d, S)>> >>)

\* a variant of outlier_detection without the membership test of lines
\* 101-102: the lookup of an absent column raises KeyError
outlier_detection_NoGuard(d, column, method) ==
    IF ~HasColumn(d, column) THEN RaiseOutlier("KeyError")
    ELSE IF dtype(d, ColIdx(d, column)) = "object" THEN RaiseOutlier("TypeError")
    ELSE IF method = "iqr" THEN outliers_iqr(d, ColIdx(d, column))
    ELSE outliers_zscore(d, ColIdx(d, column))

outlier_detection(d, column, method) ==
    IF ~HasColumn(d, column) THEN RaiseOutlier("ValueError")
    ELSE IF dtype(d, ColIdx(d, column)) = "object"
         THEN \* quantile and mean of texts
              RaiseOutlier("TypeError")
    ELSE IF method = "iqr" THEN outliers_iqr(d, ColIdx(d, column))
    ELSE outliers_zscore(d, ColIdx(d, column))

----------------------------------------------------------------------------
(* category_analysis and country_analysis *)

\* numerator and denominator of a number or a quotient
Numer(v) == v.n
Denom(v) == IF IsRatio(v) THEN v.d ELSE 1

\* a > b for two numbers or quotients
FGreater(a, b) == Numer(a) * Denom(b) > Numer(b) * Denom(a)

\* the texts of the grouping columns in ascending order
KeyOrder == <<"Gaming", "IN", "Music", "US">>

RECURSIVE KeysIn(_, _, _)
\* the group keys of column g in ascending order (groupby sorts the keys
\* and drops a missing key)
KeysIn(d, g, keys) ==
    IF keys = <<>> THEN <<>>
    ELSE (IF \E r \in 1..NRows(d) : d.rows[r][g] = Str(Head(keys))
          THEN <<Head(keys)>> ELSE <<>>) \o KeysIn(d, g, Tail(keys))

\* the non-missing values of column i in the rows of group key, in row order
GroupValues(d, g, key, i) ==
    LET idx == SelectIdx({r \in 1..NRows(d) :
                             d.rows[r][g] = Str(key) /\ IsNum(d.rows[r][i])})
    IN [k \in 1..Len(idx) |-> d.rows[idx[k]][i].n]

\* mean of the values (NaN for none)
MeanOf(vals) == IF vals = <<>> THEN NA ELSE Ratio(SumSeq(vals), Len(vals))

\* a variant of MedianOf that takes the lower of the two middle values
MedianOf_Lower(vals) ==
    LET v == SortValues(vals)
        n == Len(v)
    IN IF n = 0 THEN NA ELSE Ratio(v[(n + 1) \div 2], 1)

\* median of the values (NaN for none): the middle value, or the mean of
\* the two middle values
MedianOf(vals) ==
    LET v == SortValues(vals)
        n == Len(v)
    IN IF n = 0 THEN NA
       ELSE IF n % 2 = 1 THEN Ratio(v[(n + 1) \div 2], 1)
       ELSE Ratio(v[n \div 2] + v[(n \div 2) + 1], 2)

\* pair q of the series comes before pair r in sort_values(ascending=False):
\* larger values first, equal values in the order of the series, NaN last
SortsBefore(series, q, r) ==
    LET a == series[q][2]
        b == series[r][2]
    IN \/ ~isnull(a) /\ ~isnull(b) /\ (FGreater(a, b) \/ (a = b /\ q < r))
       \/ ~isnull(a) /\ isnull(b)
       \/ isnull(a) /\ isnull(b) /\ q < r

\* series.sort_values(ascending=False) of a series of <<key, value>>
sort_values(series) ==
    [k \in 1..Len(series) |->
        series[CHOOSE r \in 1..Len(series) :
                  Cardinality({q \in 1..Len(series) : SortsBefore(series, q, r)})
                     = k - 1]]

\* self.df.groupby(g)[i].mean() and its siblings, as series of <<key, value>>
GroupMean(d, g, i) ==
    LET keys == KeysIn(d, g, KeyOrder)
    IN [k \in 1..Len(keys) |-> <<keys[k], MeanOf(GroupValues(d, g, keys[k], i))>>]

GroupMedian(d, g, i) ==
    LET keys == KeysIn(d, g, KeyOrder)
    IN [k \in 1..Len(keys) |-> <<keys[k], MedianOf(GroupValues(d, g, keys[k], i))>>]

GroupSum(d, g, i) ==
    LET keys == KeysIn(d, g, KeyOrder)
    IN [k \in 1..Len(keys) |-> <<keys[k], Num(SumSeq(GroupValues(d, g, keys[k], i)))>>]

GroupCount(d, g, i) ==
    LET keys == KeysIn(d, g, KeyOrder)
    IN [k \in 1..Len(keys) |-> <<keys[k], Num(Len(GroupValues(d, g, keys[k], i)))>>]

\* what category_analysis, country_analysis and engagement_metrics return:
\* the items <<key, value>> of the dict, or an exception
Stats(items) == [raised |-> "", stats |-> items]
RaiseStats(e) == [raised |-> e, stats |-> <<>>]

None == [t |-> "None", n |-> 0, s |-> ""]

RECURSIVE CategoryLoop(_, _, _)
\* lines 46-53 for the columns of cols that remain
CategoryLoop(d, cols, res) ==
    IF cols = <<>> \/ ~Returned(res) THEN res
    ELSE IF ~HasColumn(d, Head(cols)) THEN CategoryLoop(d, Tail(cols), res)
    ELSE IF dtype(d, ColIdx(d, Head(cols))) = "object"
         THEN \* the mean of a group of texts
              RaiseStats("TypeError")
    ELSE LET g == ColIdx(d, "category")
             i == ColIdx(d, Head(cols))
         IN CategoryLoop(d, Tail(cols),
               Stats(Append(res.stats,
                  <<Head(cols),
                    [mean |-> sort_values(GroupMean(d, g, i)),
                     median |-> sort_values(GroupMedian(d, g, i)),
                     total |-> sort_values(GroupSum(d, g, i)),
                     count |-> GroupCount(d, g, i)]>>)))

\* a variant of category_analysis that gives every metric an entry, absent
\* columns an empty one
category_analysis_AllMetrics(d) ==
    IF ~HasColumn(d, "category") THEN Stats(<<>>)
    ELSE LET res == CategoryLoop(d, numeric_cols, Stats(<<>>))
         IN IF ~Returned(res) THEN res
            ELSE Stats([k \in 1..3 |->
                    IF DictHas(res.stats, numeric_cols[k])
                    THEN <<numeric_cols[k], DictGet(res.stats, numeric_cols[k])>>
                    ELSE <<numeric_cols[k],
                           [mean |-> <<>>, median |-> <<>>, total |-> <<>>,
                            count |-> <<>>]>>])

category_analysis(d) ==
    IF ~HasColumn(d, "category") THEN Stats(<<>>)
    ELSE CategoryLoop(d, numeric_cols, Stats(<<>>))

\* self.df[i].value_counts(): the keys with their counts, most frequent
\* first, a missing key dropped
value_counts(d, i) ==
    LET keys == KeysIn(d, i, KeyOrder)
    IN sort_values([k \in 1..Len(keys) |->
          <<keys[k],
            Num(Cardinality({r \in 1..NRows(d) : d.rows[r][i] = Str(keys[k])}))>>])

country_analysis(d) ==
    IF ~HasColumn(d, "Country") THEN Stats(<<>>)
    ELSE IF ~HasColumn(d, "subscribers")
         THEN Stats(<< <<"total_channels", value_counts(d, ColIdx(d, "Country"))>>,
                       <<"avg_subscribers", None>>,
                       <<"total_subscribers", None>> >>)
    ELSE IF dtype(d, ColIdx(d, "subscribers")) = "object"
         THEN RaiseStats("TypeError")
    ELSE LET g == ColIdx(d, "Country")
             i == ColIdx(d, "subscribers")
         IN Stats(<< <<"total_channels", value_counts(d, g)>>,
                     <<"avg_subscribers", sort_values(GroupMean(d, g, i))>>,
                     <<"total_subscribers", sort_values(GroupSum(d, g, i))>> >>)

----------------------------------------------------------------------------
(* engagement_metrics *)

\* a / b for two cells of numeric columns: NaN when an operand is missing,
\* and by the rules of float division x/0 = +-inf and 0/0 = NaN
Div(a, b) ==
    IF ~IsNum(a) \/ ~IsNum(b) THEN NA
    ELSE IF b.n = 0
         THEN (IF a.n > 0 THEN Inf(1) ELSE IF a.n < 0 THEN Inf(0 - 1) ELSE NA)
    ELSE IF b.n < 0 THEN Ratio(0 - a.n, 0 - b.n)
    ELSE Ratio(a.n, b.n)

RECURSIVE SumRatios(_)
\* the sum of a sequence of quotients
SumRatios(q) ==
    IF q = <<>> THEN Ratio(0, 1)
    ELSE LET rest == SumRatios(Tail(q))
         IN Ratio(Head(q).n * rest.d + rest.n * Head(q).d, Head(q).d * rest.d)

\* the cells of column i that are not missing, in row order
NotNull(d, i) ==
    LET idx == SelectIdx({r \in 1..NRows(d) : ~isnull(d.rows[r][i])})
    IN [k \in 1..Len(idx) |-> d.rows[idx[k]][i]]

\* a <= b for floats, infinities included
FLeq(a, b) ==
    IF IsInf(a) THEN a.n < 0 \/ b = a
    ELSE IF IsInf(b) THEN b.n > 0
    ELSE ~FGreater(a, b)

RECURSIVE SortFloats(_)
SortFloats(q) ==
    IF q = <<>> THEN <<>>
    ELSE LET i == CHOOSE i \in 1..Len(q) : \A j \in 1..Len(q) : FLeq(q[i], q[j])
         IN <<q[i]>> \o SortFloats(RemoveAt(q, i))

\* a + b for floats: inf + -inf is NaN
FAdd(a, b) ==
    IF IsInf(a) /\ IsInf(b) THEN (IF a = b THEN a ELSE NA)
    ELSE IF IsInf(a) THEN a
    ELSE IF IsInf(b) THEN b
    ELSE SumRatios(<<a, b>>)

\* x / k for a float and a positive integer
FOver(x, k) == IF IsRatio(x) THEN Ratio(x.n, x.d * k) ELSE x

\* the mean of floats none of which is NaN: infinities are summed
MeanFloats(q) ==
    LET finite == SelectIdx({k \in 1..Len(q) : IsRatio(q[k])})
        total == SumRatios([k \in 1..Len(finite) |-> q[finite[k]]])
        pos == \E k \in 1..Len(q) : q[k] = Inf(1)
        neg == \E k \in 1..Len(q) : q[k] = Inf(0 - 1)
    IN IF q = <<>> \/ (pos /\ neg) THEN NA
       ELSE IF pos THEN Inf(1)
       ELSE IF neg THEN Inf(0 - 1)
       ELSE FOver(total, Len(q))

\* the median of floats none of which is NaN: the middle value, or the
\* mean of the two middle values
MedianFloats(q) ==
    LET v == SortFloats(q)
        n == Len(v)
    IN IF n = 0 THEN NA
       ELSE IF n % 2 = 1 THEN v[(n + 1) \div 2]
       ELSE FOver(FAdd(v[n \div 2], v[(n \div 2) + 1]), 2)

\* Series.mean() and Series.median() of a float column: missing cells are
\* skipped
mean(d, i) == MeanFloats(NotNull(d, i))
median(d, i) == MedianFloats(NotNull(d, i))

\* a variant of SetColumn that writes the cells over the first column
SetColumn_First(d, name, cells) ==
    [columns |-> [d.columns EXCEPT ![1] = name],
     rows |-> [r \in 1..NRows(d) |-> [d.rows[r] EXCEPT ![1] = cells[r]]]]

\* self.df[name] = cells: the column is replaced where it is, or appended
SetColumn(d, name, cells) ==
    IF HasColumn(d, name)
    THEN [d EXCEPT !.rows =
            [r \in 1..NRows(d) |-> [d.rows[r] EXCEPT ![ColIdx(d, name)] = cells[r]]]]
    ELSE [columns |-> Append(d.columns, name),
          rows |-> [r \in 1..NRows(d) |-> Append(d.rows[r], cells[r])]]

\* what engagement_metrics leaves: the metrics dict (or an exception) and
\* the working table
Engagement(raised, stats, table) ==
    [raised |-> raised, stats |-> stats, table |-> table]

\* a variant of RatioDefs whose third ratio divides video views
RatioDefs_ViewsForSubs ==
    << <<"views_per_subscriber", "video views", "subscribers">>,
       <<"views_per_upload", "video views", "uploads">>,
       <<"subs_per_upload", "video views", "uploads">> >>

\* the three ratios as <<name, numerator column, denominator column>>, in
\* the order of lines 74, 80 and 86
RatioDefs ==
    << <<"views_per_subscriber", "video views", "subscribers">>,
       <<"views_per_upload", "video views", "uploads">>,
       <<"subs_per_upload", "subscribers", "uploads">> >>

\* one of the blocks at lines 74-78, 80-84 and 86-90: when both columns
\* exist the quotient column is assigned and its mean and median are added
RatioBlock(e, def) ==
    LET d == e.table
    IN IF ~HasColumn(d, def[2]) \/ ~HasColumn(d, def[3]) THEN e
       ELSE IF \/ dtype(d, ColIdx(d, def[2])) = "object"
               \/ dtype(d, ColIdx(d, def[3])) = "object"
            THEN \* a text divided
                 Engagement("TypeError", <<>>, d)
       ELSE LET cells == [r \in 1..NRows(d) |->
                            Div(d.rows[r][ColIdx(d, def[2])],
                                d.rows[r][ColIdx(d, def[3])])]
                t == SetColumn(d, def[1], cells)
                i == ColIdx(t, def[1])
            IN Engagement("",
                  e.stats \o << <<"avg_" \o def[1], mean(t, i)>>,
                                <<"median_" \o def[1], median(t, i)>> >>,
                  t)

RECURSIVE RatioLoop(_, _)
RatioLoop(e, defs) ==
    IF defs = <<>> \/ e.raised # "" THEN e
    ELSE RatioLoop(RatioBlock(e, Head(defs)), Tail(defs))

engagement_metrics(d) == RatioLoop(Engagement("", <<>>, d), RatioDefs)

----------------------------------------------------------------------------
(* correlation_analysis *)

\* a number as a fraction
ToRatio(v) == IF IsNum(v) THEN Ratio(v.n, 1) ELSE v

RMul(a, b) == Ratio(a.n * b.n, a.d * b.d)
RSub(a, b) == Ratio(a.n * b.d - b.n * a.d, a.d * b.d)

\* a Pearson coefficient, kept as its sign and its square
Corr(sign, square) == [t |-> "corr", n |-> sign, s |-> "", sq |-> square]

\* the coefficient of columns i and j over the rows where both have a
\* value: NaN when a value is infinite or a column is constant there
corr(d, i, j) ==
    LET idx == SelectIdx({r \in 1..NRows(d) :
                             ~isnull(d.rows[r][i]) /\ ~isnull(d.rows[r][j])})
        n == Ratio(Len(idx), 1)
        x == [k \in 1..Len(idx) |-> ToRatio(d.rows[idx[k]][i])]
        y == [k \in 1..Len(idx) |-> ToRatio(d.rows[idx[k]][j])]
    IN IF \E k \in 1..Len(idx) : IsInf(x[k]) \/ IsInf(y[k]) THEN NA
       ELSE LET sx == SumRatios(x)
                sy == SumRatios(y)
                sxy == SumRatios([k \in 1..Len(idx) |-> RMul(x[k], y[k])])
                sxx == SumRatios([k \in 1..Len(idx) |-> RMul(x[k], x[k])])
                syy == SumRatios([k \in 1..Len(idx) |-> RMul(y[k], y[k])])
                cov == RSub(RMul(n, sxy), RMul(sx, sy))
                vx == RSub(RMul(n, sxx), RMul(sx, sx))
                vy == RSub(RMul(n, syy), RMul(sy, sy))
            IN IF vx.n = 0 \/ vy.n = 0 THEN NA
               ELSE Corr(IF cov.n > 0 THEN 1 ELSE IF cov.n < 0 THEN 0 - 1 ELSE 0,
                         Ratio(cov.n * cov.n * vx.d * vy.d,
                               cov.d * cov.d * vx.n * vy.n))

\* the matrix over the numeric columns, its labels in column order
correlation_analysis(d) ==
    LET idx == SelectIdx({i \in 1..NCols(d) : dtype(d, i) # "object"})
        labels == [k \in 1..Len(idx) |-> d.columns[idx[k]]]
    IN Frame(labels,
             [k \in 1..Len(idx) |->
                 [l \in 1..Len(idx) |-> corr(d, idx[k], idx[l])]],
             labels)

----------------------------------------------------------------------------
(* generate_report and export_insights *)

\* one line of the report: the fixed text or the template of the line and
\* the values it formats
Line(kind, label, n, value) ==
    [kind |-> kind, label |-> label, n |-> n, value |-> value]

Fixed(text) == Line(text, "", 0, NA)

RuleLine == Fixed("=" \o "*80")
DashLine == Fixed("-" \o "*80")
BlankLine == Fixed("")

TopHeader == "TOP 5 CHANNELS BY SUBSCRIBERS"
CategoryHeader == "CATEGORY INSIGHTS"
EngagementHeader == "ENGAGEMENT METRICS"
CountryHeader == "TOP 5 COUNTRIES"

TopLine == "{Youtuber:30s} {subscribers:>15,} subscribers"
CategoryLine == "  {cat:30s} {count:>5,} channels"
MetricLine == "{label:40s} {value:>15,.2f}"
CountryLine == "{country:30s} {count:>5,} channels ({pct:.1f}%)"

\* what generate_report leaves: the lines of the text (or an exception) and
\* the working table
Report(raised, lines, table) ==
    [raised |-> raised, lines |-> lines, table |-> table]

\* head(k) of a series
head(series, k) == SubSeq(series, 1, IF Len(series) < k THEN Len(series) ELSE k)

\* f"{value:,.2f}" of a float, in hundredths (round half to even); nan and
\* inf stay as they are
Hundredths(v) ==
    IF ~IsRatio(v) THEN v
    ELSE LET a == Abs(v.n)
             q == (100 * a) \div v.d
             r == (100 * a) % v.d
             h == IF 2 * r > v.d \/ (2 * r = v.d /\ q % 2 = 1) THEN q + 1 ELSE q
         IN Num(IF v.n < 0 THEN 0 - h ELSE h)

\* key.replace('_', ' ').title()
Title(key) ==
    CASE key = "avg_views_per_subscriber" -> "Avg Views Per Subscriber"
      [] key = "median_views_per_subscriber" -> "Median Views Per Subscriber"
      [] key = "avg_views_per_upload" -> "Avg Views Per Upload"
      [] key = "median_views_per_upload" -> "Median Views Per Upload"
      [] key = "avg_subs_per_upload" -> "Avg Subs Per Upload"
      [] key = "median_subs_per_upload" -> "Median Subs Per Upload"

\* lines 141-151
OverviewSection(d) ==
    <<RuleLine, Fixed("YOUTUBE STATISTICS ANALYSIS REPORT"), RuleLine, BlankLine,
      Fixed("DATASET OVERVIEW"), DashLine,
      Line("Total Channels: {n:,}", "", NRows(d), NA),
      Line("Features: {n}", "", NCols(d), NA),
      BlankLine>>

\* lines 154-160: the exception of get_top_performers, or of the format
\* code s applied to a Youtuber that is not a text, leaves the report
TopSection(d) ==
    IF ~HasColumn(d, "subscribers") THEN Report("", <<>>, d)
    ELSE LET top5 == get_top_performers(d, "subscribers", 5)
         IN IF ~Returned(top5) THEN Report(top5.raised, <<>>, d)
            ELSE IF \E k \in 1..Len(top5.rows) : ~IsStr(top5.rows[k][1])
                 THEN Report("ValueError", <<>>, d)
            ELSE Report("",
                    <<Fixed(TopHeader), DashLine>>
                    \o [k \in 1..Len(top5.rows) |->
                          Line(TopLine, top5.rows[k][1].s, 0, top5.rows[k][3])]
                    \o <<BlankLine>>,
                    d)

\* lines 163-170
CategorySection(d) ==
    IF ~HasColumn(d, "category") THEN <<>>
    ELSE LET cat_counts == head(value_counts(d, ColIdx(d, "category")), 5)
         IN <<Fixed(CategoryHeader), DashLine,
              Fixed("Top 5 Categories by Channel Count:")>>
            \o [k \in 1..Len(cat_counts) |->
                  Line(CategoryLine, cat_counts[k][1], cat_counts[k][2].n, NA)]
            \o <<BlankLine>>

\* lines 174-180
EngagementSection(metrics) ==
    IF metrics = <<>> THEN <<>>
    ELSE <<Fixed(EngagementHeader), DashLine>>
         \o [k \in 1..Len(metrics) |->
               Line(MetricLine, Title(metrics[k][1]), 0, Hundredths(metrics[k][2]))]
         \o <<BlankLine>>

\* lines 183-190
CountrySection(d) ==
    IF ~HasColumn(d, "Country") THEN <<>>
    ELSE LET top_countries == head(value_counts(d, ColIdx(d, "Country")), 5)
         IN <<Fixed(CountryHeader), DashLine>>
            \o [k \in 1..Len(top_countries) |->
                  Line(CountryLine, top_countries[k][1], top_countries[k][2].n,
                       Num(Tenths(top_countries[k][2].n, NRows(d))))]
            \o <<BlankLine>>

generate_report(d) ==
    LET top == TopSection(d)
        e == engagement_metrics(d)
    IN IF top.raised # "" THEN top
       ELSE IF e.raised # "" THEN Report(e.raised, <<>>, e.table)
       ELSE Report("",
               OverviewSection(d) \o top.lines \o CategorySection(d)
               \o EngagementSection(e.stats) \o CountrySection(e.table)
               \o <<RuleLine>>,
               e.table)

----------------------------------------------------------------------------
(* generate_quality_report *)

RECURSIVE ConcatLines(_)
ConcatLines(seqs) ==
    IF seqs = <<>> THEN <<>> ELSE Head(seqs) \o ConcatLines(Tail(seqs))

\* p/q (q > 0) rounded to an integer, half to even
RoundHalfEven(p, q) ==
    LET a == Abs(p)
        k == a \div q
        r == a % q
        h == IF 2 * r > q \/ (2 * r = q /\ k % 2 = 1) THEN k + 1 ELSE k
    IN IF p < 0 THEN 0 - h ELSE h

\* the square root of p/q (p >= 0, q > 0) rounded to an integer, half to
\* even: the k with (2k - 1)^2 <= 4p/q <= (2k + 1)^2
RoundSqrt(p, q) ==
    CHOOSE k \in 0..(p + 1) :
        /\ (2 * k - 1) * (2 * k - 1) * q <= 4 * p \/ k = 0
        /\ 4 * p <= (2 * k + 1) * (2 * k + 1) * q
        /\ 4 * p = (2 * k + 1) * (2 * k + 1) * q => k % 2 = 0
        /\ (k > 0 /\ 4 * p = (2 * k - 1) * (2 * k - 1) * q) => k % 2 = 0

MissingLine == "{col:30s} {count:>8,} ({pct:>6.2f}%)"
DuplicateLine == "Duplicate rows: {n_dup:,} ({pct:.2f}%)"
DtypeLine == "{dtype:20s} {count:>3} columns"
MinLine == "{col:<30} {min:>12,.0f}"
MaxLine == "{max:>12,.0f}"
MeanLine == "{mean:>12,.0f}"
StdLine == "{std:>12,.0f}"

\* a variant of MissingSection that lists every column of a table that has
\* a missing value
MissingSection_AllColumns(d) ==
    LET cols == SelectIdx(1..NCols(d))
    IN <<Fixed("MISSING VALUES"), DashLine>>
       \o (IF \A i \in 1..NCols(d) : NullCount(d, i) = 0
           THEN <<Fixed("No missing values detected")>>
           ELSE [k \in 1..Len(cols) |->
                   Line(MissingLine, d.columns[cols[k]], NullCount(d, cols[k]),
                        Hundredths(Ratio(100 * NullCount(d, cols[k]), NRows(d))))])
       \o <<BlankLine>>

\* lines 175-184
MissingSection(d) ==
    LET cols == SelectIdx({i \in 1..NCols(d) : NullCount(d, i) > 0})
    IN <<Fixed("MISSING VALUES"), DashLine>>
       \o (IF cols = <<>> THEN <<Fixed("No missing values detected")>>
           ELSE [k \in 1..Len(cols) |->
                   Line(MissingLine, d.columns[cols[k]], NullCount(d, cols[k]),
                        Hundredths(Ratio(100 * NullCount(d, cols[k]), NRows(d))))])
       \o <<BlankLine>>

\* lines 187-191: 0/0 of a table without rows formats as nan
DuplicatesSection(d) ==
    LET n_dup == Cardinality(duplicated(d))
    IN <<Fixed("DUPLICATES"), DashLine,
         Line(DuplicateLine, "", n_dup,
              IF NRows(d) = 0 THEN NA
              ELSE Hundredths(Ratio(100 * n_dup, NRows(d)))),
         BlankLine>>

DtypeNames == <<"int64", "float64", "object">>

\* lines 194-199: the dtypes with the number of their columns, most columns
\* first, dtypes of equal count in the order they first appear
DtypeSection(d) ==
    LET first(t) == CHOOSE i \in 1..NCols(d) :
                       /\ dtype(d, i) = t
                       /\ \A j \in 1..(i - 1) : dtype(d, j) # t
        count(t) == Cardinality({i \in 1..NCols(d) : dtype(d, i) = t})
        present == {k \in 1..3 : count(DtypeNames[k]) > 0}
        before(k, l) ==
            \/ count(DtypeNames[k]) > count(DtypeNames[l])
            \/ /\ count(DtypeNames[k]) = count(DtypeNames[l])
               /\ first(DtypeNames[k]) < first(DtypeNames[l])
        order == [m \in 1..Cardinality(present) |->
                    CHOOSE l \in present :
                       Cardinality({k \in present : before(k, l)}) = m - 1]
    IN <<Fixed("DATA TYPES"), DashLine>>
       \o [m \in 1..Len(order) |->
             Line(DtypeLine, DtypeNames[order[m]], count(DtypeNames[order[m]]), NA)]
       \o <<BlankLine>>

RECURSIVE CommonDenom(_)
\* a common denominator of the fractions of q
CommonDenom(q) == IF q = <<>> THEN 1 ELSE Head(q).d * CommonDenom(Tail(q))

\* f"{x:,.0f}" of a float: a fraction is rounded to an integer, inf stays
Rounded(x) == IF IsRatio(x) THEN Num(RoundHalfEven(x.n, x.d)) ELSE x

\* line 209: min, max, mean and std (ddof=1) of the values of column i, each
\* formatted to an integer; nan where there is no value (std: fewer than two
\* values, or an infinite one)
DescribeLines(d, i) ==
    LET cells == NotNull(d, i)
        q == [k \in 1..Len(cells) |-> ToRatio(cells[k])]
        v == SortFloats(q)
        n == Len(v)
        finite == \A k \in 1..n : IsRatio(q[k])
        D == CommonDenom(q)
        a == [k \in 1..n |-> q[k].n * (D \div q[k].d)]
        total == SumSeq(a)
        squares == SumSeq([k \in 1..n |-> a[k] * a[k]])
    IN <<Line(MinLine, d.columns[i], 0, IF n = 0 THEN NA ELSE Rounded(v[1])),
         Line(MaxLine, d.columns[i], 0, IF n = 0 THEN NA ELSE Rounded(v[n])),
         Line(MeanLine, d.columns[i], 0, Rounded(MeanFloats(q))),
         Line(StdLine, d.columns[i], 0,
              IF n < 2 \/ ~finite THEN NA
              ELSE Num(RoundSqrt(n * squares - total * total,
                                 n * (n - 1) * D * D)))>>

\* lines 202-209, for the first ten numeric columns
NumericSection(d) ==
    LET cols == head(SelectIdx({i \in 1..NCols(d) : dtype(d, i) # "object"}), 10)
    IN IF cols = <<>> THEN <<>>
       ELSE <<Fixed("NUMERIC COLUMN STATISTICS"), DashLine,
              Fixed("Column Min Max Mean Std"), DashLine>>
            \o ConcatLines([k \in 1..Len(cols) |-> DescribeLines(d, cols[k])])

\* the memory of the tables of the model is far below 0.005 MB
generate_quality_report(d) ==
    [raised |-> "",
     lines |->
        <<RuleLine, Fixed("DATA QUALITY REPORT"), RuleLine, BlankLine,
          Fixed("DATASET OVERVIEW"), DashLine,
          Line("Rows: {n:,}", "", NRows(d), NA),
          Line("Columns: {n}", "", NCols(d), NA),
          Line("Memory usage: {n:.2f} MB", "", 0, NA),
          BlankLine>>
        \o MissingSection(d) \o DuplicatesSection(d) \o DtypeSection(d)
        \o NumericSection(d) \o <<BlankLine, RuleLine>>]

----------------------------------------------------------------------------
(* The validator as a state machine: a DataValidator holds df; op, args *)
(* and result are the last call, its arguments and what it returned     *)

Init ==
    /\ df \in Tables
    /\ hashseed \in HashSeeds
    /\ op = "init"
    /\ args = NoArgs
    /\ result = ValidationResult(TRUE, <<>>, <<>>, <<>>)

CheckMissingValues ==
    \E thr \in Thresholds :
        /\ op' = "check_missing_values"
        /\ args' = [NoArgs EXCEPT !.threshold = thr]
        /\ result' = check_missing_values(df, thr)
        /\ UNCHANGED <<df, hashseed>>

CheckDuplicates ==
    /\ op' = "check_duplicates"
    /\ args' = NoArgs
    /\ result' = check_duplicates(df)
    /\ UNCHANGED <<df, hashseed>>

\* a variant of CheckDataTypes that keeps the columns it converted in the
\* table
CheckDataTypes_Coerces ==
    \E expected \in ExpectedArgs :
        /\ op' = "check_data_types"
        /\ args' = [NoArgs EXCEPT !.expected = expected]
        /\ result' = check_data_types(df, expected)
        /\ df' = CoerceLoop(df, numeric_cols)
        /\ UNCHANGED hashseed

CheckDataTypes ==
    \E expected \in ExpectedArgs :
        /\ op' = "check_data_types"
        /\ args' = [NoArgs EXCEPT !.expected = expected]
        /\ result' = check_data_types(df, expected)
        /\ UNCHANGED <<df, hashseed>>

CheckValueRanges ==
    \E ranges \in RangeArgs :
        /\ op' = "check_value_ranges"
        /\ args' = [NoArgs EXCEPT !.ranges = ranges]
        /\ result' = check_value_ranges(df, ranges)
        /\ UNCHANGED <<df, hashseed>>

CheckRequiredColumns ==
    \E required \in RequiredArgs :
        /\ op' = "check_required_columns"
        /\ args' = [NoArgs EXCEPT !.required = required]
        /\ result' = check_required_columns(df, required, hashseed)
        /\ UNCHANGED <<df, hashseed>>

ValidateAll ==
    \E a \in ValidateAllArgs :
        /\ op' = "validate_all"
        /\ args' = a
        /\ result' = validate_all(df, a.required, a.expected, a.ranges,
                                  a.threshold, hashseed)
        /\ UNCHANGED <<df, hashseed>>

GenerateQualityReport ==
    /\ op' = "generate_quality_report"
    /\ args' = NoArgs
    /\ result' = generate_quality_report(df)
    /\ UNCHANGED <<df, hashseed>>

Next ==
    \/ GenerateQualityReport
    \/ CheckMissingValues
    \/ CheckDuplicates
    \/ CheckDataTypes
    \/ CheckValueRanges
    \/ CheckRequiredColumns
    \/ ValidateAll

Spec == Init /\ [][Next]_vars

----------------------------------------------------------------------------
(* The data-type probe on a table of one text column of up to MaxTextRows *)
(* rows                                                                  *)

TextColumnValues == {Str("7"), Str("x"), NA}

TextTables ==
    {[columns |-> <<"video views">>, rows |-> rs] :
        rs \in UNION {[1..k -> {<<v>> : v \in TextColumnValues}] :
                        k \in 0..MaxTextRows}}

InitTypes ==
    /\ df \in TextTables
    /\ hashseed = 0
    /\ op = "init"
    /\ args = NoArgs
    /\ result = ValidationResult(TRUE, <<>>, <<>>, <<>>)

NextTypes == CheckDataTypes

SpecTypes == InitTypes /\ [][NextTypes]_vars

----------------------------------------------------------------------------
(* The analyzer as a state machine *)

\* the values a cell of the column named c takes in a table an analyzer is
\* built on
AnalyzerColumnValues(c) ==
    CASE c = " subscribers " -> {Num(1), Str("7"), Str("x")}
      [] c = "video views" -> {NA, Num(0), Num(4)}
      [] c = "uploads" -> {NA, Num(0), Num(2)}
      [] c = "Country" -> {Str("US"), Str("IN"), NA}
      [] OTHER -> ColumnValues(c)

AnalyzerSchemas ==
    { <<"Youtuber", "category", "subscribers">>,
      <<"Youtuber", "subscribers">>,
      <<"category", "Youtuber", "video views">>,
      <<"video views", "uploads">>,
      <<" subscribers ", "uploads">>,
      <<"video views", "subscribers">>,
      <<"Country", "subscribers">> }

AnalyzerRowsOf(schema) ==
    {row \in [1..Len(schema) ->
                 UNION {AnalyzerColumnValues(schema[i]) : i \in 1..Len(schema)}] :
        \A i \in 1..Len(schema) : row[i] \in AnalyzerColumnValues(schema[i])}

\* the tables an analyzer is built on: at least one row
AnalyzerTables ==
    UNION {{d \in {[columns |-> schema, rows |-> rs] :
                      rs \in [1..k -> AnalyzerRowsOf(schema)]} : WellFormed(d)} :
             schema \in AnalyzerSchemas, k \in 1..MaxRows}

Metrics == {"subscribers", "video views", "category", "uploads"}

\* the state after YouTubeAnalyzer(df): _prepare_data has run
InitAnalyzer ==
    /\ df \in {prepare_data(t) : t \in AnalyzerTables}
    /\ hashseed = 0
    /\ op = "init"
    /\ args = NoArgs
    /\ result = Frame(<<>>, <<>>, <<>>)

GetTopPerformers ==
    \E metric \in Metrics, n \in 0..MaxN :
        /\ op' = "get_top_performers"
        /\ args' = [NoArgs EXCEPT !.metric = metric, !.n = n]
        /\ result' = get_top_performers(df, metric, n)
        /\ UNCHANGED <<df, hashseed>>

OutlierDetection ==
    \E column \in Metrics, method \in OutlierMethods :
        /\ op' = "outlier_detection"
        /\ args' = [NoArgs EXCEPT !.metric = column, !.method = method]
        /\ result' = outlier_detection(df, column, method)
        /\ UNCHANGED <<df, hashseed>>

CategoryAnalysis ==
    /\ op' = "category_analysis"
    /\ args' = NoArgs
    /\ result' = category_analysis(df)
    /\ UNCHANGED <<df, hashseed>>

CountryAnalysis ==
    /\ op' = "country_analysis"
    /\ args' = NoArgs
    /\ result' = country_analysis(df)
    /\ UNCHANGED <<df, hashseed>>

EngagementMetrics ==
    LET e == engagement_metrics(df)
    IN /\ op' = "engagement_metrics"
       /\ args' = NoArgs
       /\ result' = [raised |-> e.raised, stats |-> e.stats]
       /\ df' = e.table
       /\ UNCHANGED hashseed

CorrelationAnalysis ==
    /\ op' = "correlation_analysis"
    /\ args' = NoArgs
    /\ result' = correlation_analysis(df)
    /\ UNCHANGED <<df, hashseed>>

GenerateReport ==
    LET r == generate_report(df)
    IN /\ op' = "generate_report"
       /\ args' = NoArgs
       /\ result' = [raised |-> r.raised, lines |-> r.lines]
       /\ df' = r.table
       /\ UNCHANGED hashseed

\* the report is written to the file at output_path; the call returns None
ExportInsights ==
    LET r == generate_report(df)
    IN /\ op' = "export_insights"
       /\ args' = NoArgs
       /\ result' = [raised |-> r.raised, written |-> r.lines]
       /\ df' = r.table
       /\ UNCHANGED hashseed

NextAnalyzer ==
    \/ CorrelationAnalysis
    \/ GenerateReport
    \/ ExportInsights
    \/ EngagementMetrics
    \/ GetTopPerformers
    \/ OutlierDetection
    \/ CategoryAnalysis
    \/ CountryAnalysis

SpecAnalyzer == InitAnalyzer /\ [][NextAnalyzer]_vars

----------------------------------------------------------------------------
(* The construction of an analyzer on a table as it was loaded *)

InitConstruct ==
    /\ df \in AnalyzerTables
    /\ hashseed = 0
    /\ op = "load_csv"
    /\ args = NoArgs
    /\ result = Frame(<<>>, <<>>, <<>>)

\* YouTubeAnalyzer(df): the analyzer keeps the caller's table and
\* _prepare_data assigns to it; args.table is the table passed
Construct ==
    /\ op' = "__init__"
    /\ args' = [table |-> df]
    /\ df' = prepare_data(df)
    /\ UNCHANGED <<hashseed, result>>

NextConstruct == Construct

SpecConstruct == InitConstruct /\ [][NextConstruct]_vars

----------------------------------------------------------------------------
(* outlier_detection on a table of one numeric column of up to *)
(* MaxOutlierRows rows, and on the table of the values 1 2 3 4 5 100 *)

OutlierColumnValues == {NA, Num(1), Num(2), Num(100)}

ExampleTable ==
    [columns |-> <<"subscribers">>,
     rows |-> << <<Num(1)>>, <<Num(2)>>, <<Num(3)>>, <<Num(4)>>, <<Num(5)>>,
                 <<Num(100)>> >>]

OutlierTables ==
    {ExampleTable} \cup
    {[columns |-> <<"subscribers">>, rows |-> rs] :
        rs \in UNION {[1..k -> {<<v>> : v \in OutlierColumnValues}] :
                        k \in 1..MaxOutlierRows}}

InitOutlier ==
    /\ df \in {prepare_data(t) : t \in OutlierTables}
    /\ hashseed = 0
    /\ op = "init"
    /\ args = NoArgs
    /\ result = Frame(<<>>, <<>>, <<>>)

NextOutlier == OutlierDetection

SpecOutlier == InitOutlier /\ [][NextOutlier]_vars

----------------------------------------------------------------------------
(* basic_cleaning *)

\* df[c] = pd.to_numeric(df[c], errors='coerce')
Coerce(d, c) ==
    SetColumn(d, c, [r \in 1..NRows(d) |-> to_numeric(d.rows[r][ColIdx(d, c)])])

\* df.columns = [c.strip() for c in df.columns]
StripNames(d) == [d EXCEPT !.columns = [i \in 1..NCols(d) |-> Strip(d.columns[i])]]

\* df.drop_duplicates(): the rows that repeat an earlier row are dropped
drop_duplicates(d) ==
    LET keep == SelectIdx((1..NRows(d)) \ duplicated(d))
    IN [d EXCEPT !.rows = [k \in 1..Len(keep) |-> d.rows[keep[k]]]]

\* lines 46-50 of load_data.py
CleanNumbers(d) ==
    LET subs == IF HasColumn(d, "subscribers") THEN Coerce(d, "subscribers") ELSE d
    IN IF HasColumn(subs, "video views")
       THEN SetColumn(subs, "video_views",
               [r \in 1..NRows(subs) |->
                   to_numeric(subs.rows[r][ColIdx(subs, "video views")])])
       ELSE subs

\* a variant of basic_cleaning that converts the numeric columns before it
\* strips the names
basic_cleaning_ConvertFirst(d) == drop_duplicates(StripNames(CleanNumbers(d)))

\* the argument is copied; the copy is what the operations act on
basic_cleaning(d) == drop_duplicates(CleanNumbers(StripNames(d)))

\* the values a cell of the column named c takes in a table to be cleaned
CleaningColumnValues(c) ==
    CASE c = "subscribers" -> {Num(1), Str("7"), Str("x")}
      [] c = " subscribers " -> {Num(1), Str("7"), Str("x")}
      [] c = "video views" -> {Num(0), Str("7"), Str("x")}
      [] c = "video_views" -> {Num(7), NA}
      [] OTHER -> ColumnValues(c)

CleaningSchemas ==
    { <<" subscribers ", "video views">>,
      <<"Youtuber", "subscribers">>,
      <<"video views", "video_views">> }

CleaningRowsOf(schema) ==
    {row \in [1..Len(schema) ->
                 UNION {CleaningColumnValues(schema[i]) : i \in 1..Len(schema)}] :
        \A i \in 1..Len(schema) : row[i] \in CleaningColumnValues(schema[i])}

CleaningTables ==
    UNION {{d \in {[columns |-> schema, rows |-> rs] :
                      rs \in [1..k -> CleaningRowsOf(schema)]} : WellFormed(d)} :
             schema \in CleaningSchemas, k \in 0..MaxRows}

\* df is the table load_csv returned; result is the table last returned
InitCleaning ==
    /\ df \in CleaningTables
    /\ hashseed = 0
    /\ op = "load_csv"
    /\ args = NoArgs
    /\ result = [raised |-> "", table |-> df]

\* basic_cleaning(table), table being the loaded table or the table last
\* returned
BasicCleaning ==
    \E table \in {df, result.table} :
        /\ op' = "basic_cleaning"
        /\ args' = [table |-> table]
        /\ result' = [raised |-> "", table |-> basic_cleaning(table)]
        /\ UNCHANGED <<df, hashseed>>

NextCleaning == BasicCleaning

SpecCleaning == InitCleaning /\ [][NextCleaning]_vars

----------------------------------------------------------------------------
(* Properties of the validator *)

ValidatorOps ==
    {"check_missing_values", "check_duplicates", "check_data_types",
     "check_value_ranges", "check_required_columns", "validate_all"}

RECURSIVE ConcatAll(_)
ConcatAll(seqs) ==
    IF seqs = <<>> THEN <<>> ELSE Head(seqs) \o ConcatAll(Tail(seqs))

\* the checks of the last validate_all call, each run on its own, in the
\* order check_required_columns (when required_cols is given),
\* check_missing_values, check_duplicates, check_data_types,
\* check_value_ranges
ChecksInOrder ==
    (IF args.required # <<>>
     THEN <<check_required_columns(df, args.required, hashseed)>> ELSE <<>>)
    \o <<check_missing_values(df, args.threshold),
         check_duplicates(df),
         check_data_types(df, args.expected),
         check_value_ranges(df, args.ranges)>>

StatKeys == {"total_missing", "columns_with_missing", "n_duplicates"}

\* C1: a validate_all call that returns has merged the checks run in the
\* fixed order: passed is the conjunction of the checks' passed flags, issues
\* and warnings are the concatenations of the checks' lists in that order,
\* and stats holds every key of every check with the value of the last check
\* that has the key.
C1_ValidateAllMerges ==
    (op = "validate_all" /\ Returned(result)) =>
        LET cs == ChecksInOrder
            having(k) == {i \in 1..Len(cs) : DictHas(cs[i].stats, k)}
            last(k) == CHOOSE i \in having(k) : \A j \in having(k) : j <= i
        IN /\ result.passed = (\A i \in 1..Len(cs) : cs[i].passed)
           /\ result.issues = ConcatAll([i \in 1..Len(cs) |-> cs[i].issues])
           /\ result.warnings = ConcatAll([i \in 1..Len(cs) |-> cs[i].warnings])
           /\ \A k \in StatKeys :
                 /\ DictHas(result.stats, k) <=> having(k) # {}
                 /\ having(k) # {} =>
                       DictGet(result.stats, k) = DictGet(cs[last(k)].stats, k)
           /\ \A i \in 1..Len(result.stats) : result.stats[i][1] \in StatKeys

\* a validate_all call with required columns that returned a failure: the
\* required-columns and the missing-values checks failed, the later checks
\* passed, and the duplicates check added a warning
C1_Witness ==
    /\ op = "validate_all"
    /\ Returned(result)
    /\ args.required # <<>>
    /\ ~result.passed
    /\ Len(result.issues) >= 3
    /\ result.issues[1].kind = MissingRequiredMsg
    /\ result.issues[2].kind = MissingHeaderMsg
    /\ result.warnings # <<>>
    /\ Len(result.stats) = 3
    /\ check_value_ranges(df, args.ranges).passed

\* C2: every validator check, on every table and with every optional
\* parameter omitted or given, returns a ValidationResult and never raises.
C2_ChecksNeverRaise ==
    op \in ValidatorOps => Returned(result)

MissingCells(d) ==
    {rc \in (1..NRows(d)) \X (1..NCols(d)) : isnull(d.rows[rc[1]][rc[2]])}

ColumnsWithMissing(d) ==
    {i \in 1..NCols(d) : \E r \in 1..NRows(d) : isnull(d.rows[r][i])}

\* C3: check_missing_values records total_missing = the number of missing
\* cells of the table (between 0 and rows x columns) and
\* columns_with_missing = the number of columns with a missing cell, whether
\* it passes or fails; total_missing = 0 iff columns_with_missing = 0.
C3_MissingStats ==
    op = "check_missing_values" =>
        /\ Returned(result)
        /\ DictHas(result.stats, "total_missing")
        /\ DictHas(result.stats, "columns_with_missing")
        /\ LET total == DictGet(result.stats, "total_missing")
               cols == DictGet(result.stats, "columns_with_missing")
           IN /\ total = Cardinality(MissingCells(df))
              /\ total \in 0..(NRows(df) * NCols(df))
              /\ cols = Cardinality(ColumnsWithMissing(df))
              /\ (total = 0) <=> (cols = 0)

\* a passing check_missing_values call on a table with two columns that
\* hold missing cells, one of them more than once
C3_Witness ==
    /\ op = "check_missing_values"
    /\ result.passed
    /\ DictGet(result.stats, "columns_with_missing") = 2
    /\ DictGet(result.stats, "total_missing") > 2

\* the columns whose fraction of missing cells is greater than thr
Offending(d, thr) ==
    {i \in 1..NCols(d) :
        /\ NRows(d) > 0
        /\ Cardinality({r \in 1..NRows(d) : isnull(d.rows[r][i])}) * thr[2]
              > thr[1] * NRows(d)}

\* C4 as stated: check_missing_values fails exactly when a column's fraction
\* of missing cells is greater than the threshold, and the number of issue
\* lines equals the number of offending columns (none when it passes).
C4_IssuePerOffendingColumn ==
    op = "check_missing_values" =>
        LET off == Offending(df, args.threshold)
        IN /\ ~result.passed <=> off # {}
           /\ Len(result.issues) = Cardinality(off)

\* C4 as amended: check_missing_values fails exactly when a column's
\* fraction of missing cells is greater than the threshold (an equal
\* fraction passes); when it fails the issues are one summary line giving
\* the number of offending columns, then one line per offending column
\* naming it and its percentage, so there is one line more than there are
\* offending columns; when it passes there is no issue.
C4_HeaderAndIssuePerOffendingColumn ==
    op = "check_missing_values" =>
        LET off == Offending(df, args.threshold)
        IN /\ ~result.passed <=> off # {}
           /\ off = {} => result.issues = <<>>
           /\ off # {} =>
                 /\ Len(result.issues) = Cardinality(off) + 1
                 /\ result.issues[1].kind = MissingHeaderMsg
                 /\ result.issues[1].n = Cardinality(off)
                 /\ \A k \in 2..Len(result.issues) :
                       result.issues[k].kind = MissingColumnMsg
                 /\ \A i \in off :
                       \E k \in 2..Len(result.issues) :
                          /\ result.issues[k].col = df.columns[i]
                          /\ result.issues[k].pct =
                                Tenths(Cardinality({r \in 1..NRows(df) :
                                          isnull(df.rows[r][i])}), NRows(df))

\* a failing check_missing_values call on a table with an offending column
\* and a column whose fraction of missing cells equals the threshold
C4_Witness ==
    /\ op = "check_missing_values"
    /\ ~result.passed
    /\ Len(result.issues) = 2
    /\ \E i \in 1..NCols(df) :
          /\ i \notin Offending(df, args.threshold)
          /\ Cardinality({r \in 1..NRows(df) : isnull(df.rows[r][i])}) > 0
          /\ Cardinality({r \in 1..NRows(df) : isnull(df.rows[r][i])})
                * args.threshold[2] = args.threshold[1] * NRows(df)

\* C5: check_duplicates records n_duplicates = the number of rows minus the
\* number of distinct rows; it is not negative and, when not zero, at most
\* the number of rows minus one.
C5_DuplicateCount ==
    op = "check_duplicates" =>
        /\ Returned(result)
        /\ DictHas(result.stats, "n_duplicates")
        /\ LET n == DictGet(result.stats, "n_duplicates")
           IN /\ n = NRows(df) - Cardinality({df.rows[r] : r \in 1..NRows(df)})
              /\ n >= 0
              /\ n > 0 => n <= NRows(df) - 1

\* a check_duplicates call on a table with a repeated row
C5_Witness ==
    /\ op = "check_duplicates"
    /\ DictGet(result.stats, "n_duplicates") >= 1
    /\ result.warnings # <<>>

\* the columns of positive_cols in the table that hold a negative number
NegativeColumns(d) ==
    {c \in SeqToSet(positive_cols) :
        /\ HasColumn(d, c)
        /\ \E r \in 1..NRows(d) :
              IsNum(d.rows[r][ColIdx(d, c)]) /\ d.rows[r][ColIdx(d, c)].n < 0}

\* C6: check_value_ranges returns passed = false exactly when a column of
\* subscribers, video views, uploads in the table holds a negative number,
\* with one issue per such column naming it; a table with a negative value
\* in video views always fails.
C6_NegativeValuesFail ==
    op = "check_value_ranges" =>
        /\ Returned(result)
        /\ ~result.passed <=> NegativeColumns(df) # {}
        /\ Len(result.issues) = Cardinality(NegativeColumns(df))
        /\ \A c \in NegativeColumns(df) :
              \E k \in 1..Len(result.issues) :
                 result.issues[k].kind = NegativeMsg /\ result.issues[k].col = c

\* the entries of ranges whose column is in the table and holds a number
\* below min or above max
OutOfRangeEntries(d, ranges) ==
    {k \in 1..Len(ranges) :
        /\ HasColumn(d, ranges[k][1])
        /\ \E r \in 1..NRows(d) :
              LET v == d.rows[r][ColIdx(d, ranges[k][1])]
              IN IsNum(v) /\ (v.n < ranges[k][2] \/ v.n > ranges[k][3])}

\* C7: for each entry of ranges whose column is in the table,
\* check_value_ranges adds one warning exactly when a value is below min or
\* above max; values out of range never fail the check, and an entry whose
\* column is absent adds nothing.
C7_RangeWarnings ==
    op = "check_value_ranges" =>
        LET out == OutOfRangeEntries(df, args.ranges)
        IN /\ Returned(result)
           /\ Len(result.warnings) = Cardinality(out)
           /\ \A k \in 1..Len(args.ranges) :
                 (k \in out) <=>
                    \E w \in 1..Len(result.warnings) :
                       /\ result.warnings[w].kind = OutOfRangeMsg
                       /\ result.warnings[w].col = args.ranges[k][1]
           /\ result.passed <=> NegativeColumns(df) = {}

\* C8: check_required_columns passes without issue exactly when every
\* required name is a column; otherwise it fails with one issue listing the
\* absent required names, each once, in an order that is the same in every
\* run (under every hash seed) for the same table and required list.
C8_RequiredColumns ==
    op = "check_required_columns" =>
        LET absent == SeqToSet(args.required) \ SeqToSet(df.columns)
        IN /\ Returned(result)
           /\ absent = {} => result.passed /\ result.issues = <<>>
           /\ absent # {} =>
                 /\ ~result.passed
                 /\ Len(result.issues) = 1
                 /\ SeqToSet(result.issues[1].names) = absent
                 /\ Len(result.issues[1].names) = Cardinality(absent)
           /\ \A seed \in HashSeeds :
                 check_required_columns(df, args.required, seed) = result

\* the entries of expected_types that the table contradicts
TypeMismatches(d, expected) ==
    {k \in 1..Len(expected) :
        /\ HasColumn(d, expected[k][1])
        /\ ~TypeNameIn(expected[k][2], dtype(d, ColIdx(d, expected[k][1])))}

\* the text-typed columns of which n tenths of the rows, or more (orMore) or
\* strictly more (~orMore), coerce to a number
Coercible(d, orMore) ==
    {i \in 1..NCols(d) :
        /\ dtype(d, i) = "object"
        /\ NRows(d) > 0
        /\ LET ok == Cardinality({r \in 1..NRows(d) :
                                    ~isnull(to_numeric(d.rows[r][i]))})
           IN IF orMore THEN 10 * ok >= 9 * NRows(d)
                        ELSE 10 * ok > 9 * NRows(d)}

WarnedColumns(res) ==
    {res.warnings[w].col : w \in {v \in 1..Len(res.warnings) :
                                     res.warnings[v].kind = CouldBeNumericMsg}}

\* C9 as stated: check_data_types warns that a text-typed column could be
\* numeric exactly when at least 90% of its values coerce to a number; the
\* call never raises and the warning never changes passed.
C9_WarnsAtNinetyPercent ==
    op = "check_data_types" =>
        /\ Returned(result)
        /\ WarnedColumns(result) = {df.columns[i] : i \in Coercible(df, TRUE)}
        /\ result.passed <=> TypeMismatches(df, args.expected) = {}

\* C9 as amended: check_data_types warns that a text-typed column could be
\* numeric exactly when strictly more than 90% of its values coerce to a
\* number (a column of which exactly 90% coerce gets no warning); a value
\* that does not coerce counts as missing, the call never raises and the
\* warning never changes passed.
C9_WarnsAboveNinetyPercent ==
    op = "check_data_types" =>
        /\ Returned(result)
        /\ WarnedColumns(result) = {df.columns[i] : i \in Coercible(df, FALSE)}
        /\ Len(result.warnings) = Cardinality(Coercible(df, FALSE))
        /\ result.passed <=> TypeMismatches(df, args.expected) = {}

\* a check_data_types call that warns about a text column holding a value
\* that does not coerce and fails for a type mismatch alone
C9_Witness ==
    /\ op = "check_data_types"
    /\ result.warnings # <<>>
    /\ ~result.passed
    /\ \E r \in 1..NRows(df) : df.rows[r][1] = Str("x")

\* value of the metric column in row r of the working table
MetricCell(r) == df.rows[r][ColIdx(df, args.metric)]

\* C10: on a table that has the column metric, get_top_performers(metric, n)
\* returns the min(n, rows) rows with the largest metric values, largest
\* first, equal values in row order, each projected to
\* (Youtuber, category, metric).
C10_TopPerformers ==
    (op = "get_top_performers" /\ HasColumn(df, args.metric)) =>
        /\ Returned(result)
        /\ Len(result.rows) = IF args.n < NRows(df) THEN args.n ELSE NRows(df)
        /\ result.columns = <<"Youtuber", "category", args.metric>>
        /\ \A k \in 1..Len(result.rows) :
              /\ result.index[k] \in 1..NRows(df)
              /\ result.rows[k] =
                    <<df.rows[result.index[k]][ColIdx(df, "Youtuber")],
                      df.rows[result.index[k]][ColIdx(df, "category")],
                      MetricCell(result.index[k])>>
        /\ \A k, l \in 1..Len(result.rows) :
              k < l =>
                 LET a == MetricCell(result.index[k])
                     b == MetricCell(result.index[l])
                 IN /\ result.index[k] # result.index[l]
                    /\ IsNum(b) => IsNum(a) /\ a.n >= b.n
                    /\ a = b => result.index[k] < result.index[l]
        /\ \A r \in 1..NRows(df) :
              r \notin SeqToSet(result.index) =>
                 \A k \in 1..Len(result.rows) :
                    LET a == MetricCell(result.index[k])
                        b == MetricCell(r)
                    IN IsNum(b) => IsNum(a) /\ a.n >= b.n

----------------------------------------------------------------------------
(* Properties of the analyzer *)

\* C11: get_top_performers(metric, n) and outlier_detection(column, method)
\* raise the unknown-column error (ValueError) exactly when the named column
\* is not a column of the working table, for every n and every method, and
\* the call leaves the working table as it was.
C11_UnknownColumn ==
    [][op' \in {"get_top_performers", "outlier_detection"} =>
          /\ (result'.raised = "ValueError") <=> ~HasColumn(df, args'.metric)
          /\ df' = df]_vars

\* outlier_detection by z-score has raised the unknown-column error for a
\* column the working table does not have
C11_Witness ==
    /\ op = "outlier_detection"
    /\ args.method = "zscore"
    /\ result.raised = "ValueError"
    /\ ~HasColumn(df, args.metric)

\* the keys of the items of a dict, in order
Keys(items) == [k \in 1..Len(items) |-> items[k][1]]

\* the columns of numeric_cols the working table has, in that order
PresentMetrics ==
    LET idx == SelectIdx({k \in 1..3 : HasColumn(df, numeric_cols[k])})
    IN [k \in 1..Len(idx) |-> numeric_cols[idx[k]]]

\* C12: category_analysis returns the empty dict, without raising, when the
\* working table has no category column, and country_analysis does when it
\* has no Country column, whatever other columns there are.  With the
\* grouping column, a category_analysis call that returns has an entry for
\* exactly the metrics whose column exists, and a country_analysis call that
\* returns has subscriber series exactly when subscribers exists.
C12_EmptyWithoutGroupingColumn ==
    /\ op = "category_analysis" =>
          /\ ~HasColumn(df, "category") => result = Stats(<<>>)
          /\ (HasColumn(df, "category") /\ Returned(result)) =>
                Keys(result.stats) = PresentMetrics
    /\ op = "country_analysis" =>
          /\ ~HasColumn(df, "Country") => result = Stats(<<>>)
          /\ (HasColumn(df, "Country") /\ Returned(result)) =>
                /\ Keys(result.stats) =
                      <<"total_channels", "avg_subscribers", "total_subscribers">>
                /\ (DictGet(result.stats, "avg_subscribers") # None)
                      <=> HasColumn(df, "subscribers")
                /\ (DictGet(result.stats, "total_subscribers") # None)
                      <=> HasColumn(df, "subscribers")

\* category_analysis has returned the empty dict for a table that has
\* metric columns but no category column
C12_Witness ==
    /\ op = "category_analysis"
    /\ ~HasColumn(df, "category")
    /\ HasColumn(df, "uploads")
    /\ result = Stats(<<>>)

\* the quotients of ratio def over the rows of the working table where
\* both operands are present and the denominator is not zero, in row order
ValidQuotients(def) ==
    LET n == ColIdx(df, def[2])
        m == ColIdx(df, def[3])
        idx == SelectIdx({r \in 1..NRows(df) :
                             /\ IsNum(df.rows[r][n])
                             /\ IsNum(df.rows[r][m])
                             /\ df.rows[r][m].n # 0})
    IN [k \in 1..Len(idx) |-> Div(df.rows[idx[k]][n], df.rows[idx[k]][m])]

\* C13: an engagement_metrics call that returns reports, for each ratio
\* whose two columns exist, the mean and the median of the quotients of the
\* rows where both operands are present and the denominator is not zero: a
\* row with a zero denominator does not contribute, so no mean or median is
\* infinite.
C13_ZeroDenominatorExcluded ==
    (op = "engagement_metrics" /\ Returned(result)) =>
        \A k \in 1..Len(RatioDefs) :
            LET def == RatioDefs[k]
            IN (HasColumn(df, def[2]) /\ HasColumn(df, def[3])) =>
                  /\ DictGet(result.stats, "avg_" \o def[1])
                        = MeanFloats(ValidQuotients(def))
                  /\ DictGet(result.stats, "median_" \o def[1])
                        = MedianFloats(ValidQuotients(def))
                  /\ ~IsInf(DictGet(result.stats, "avg_" \o def[1]))

\* eight times the percentile at k quarters of the sorted values v, by
\* linear interpolation: the position (Len(v) - 1) * k/4 counted from 0,
\* between the values on its two sides
Percentile8(v, k) ==
    LET below == ((Len(v) - 1) * k) \div 4
        above == IF ((Len(v) - 1) * k) % 4 = 0 THEN below ELSE below + 1
        part == ((Len(v) - 1) * k) - 4 * below
    IN 2 * ((4 - part) * v[below + 1] + part * v[above + 1])

\* C14: an outlier_detection(column, 'iqr') call on a numeric column returns
\* exactly the rows whose value is below Q1 - 1.5*IQR or above Q3 + 1.5*IQR,
\* Q1 and Q3 being the 25th and 75th percentiles (linear interpolation) of
\* the non-missing values; a row with a missing value is never returned; the
\* stats report the two bounds, n_outliers = the number of rows returned and
\* pct_outliers = 100 * n_outliers / rows.  On 1, 2, 3, 4, 5, 100 exactly the
\* row holding 100 is returned and the upper bound is 8.5.
C14_IqrOutliers ==
    (op = "outlier_detection" /\ args.method = "iqr" /\ Returned(result)) =>
        LET i == ColIdx(df, args.metric)
            v == SortValues(dropna(df, i))
            Q1 == Percentile8(v, 1)
            Q3 == Percentile8(v, 3)
            low == 2 * Q1 - 3 * (Q3 - Q1)
            high == 2 * Q3 + 3 * (Q3 - Q1)
            out == IF v = <<>> THEN {}
                   ELSE {r \in 1..NRows(df) :
                            /\ IsNum(df.rows[r][i])
                            /\ \/ 16 * df.rows[r][i].n < low
                               \/ 16 * df.rows[r][i].n > high}
        IN /\ SeqToSet(result.index) = out
           /\ Len(result.index) = Cardinality(out)
           /\ result.columns = df.columns
           /\ \A k \in 1..Len(result.index) :
                 /\ result.rows[k] = df.rows[result.index[k]]
                 /\ ~isnull(df.rows[result.index[k]][i])
           /\ v # <<>> =>
                 /\ DictGet(result.stats, "lower_bound") = Ratio(low, 16)
                 /\ DictGet(result.stats, "upper_bound") = Ratio(high, 16)
           /\ DictGet(result.stats, "n_outliers") = Len(result.rows)
           /\ DictGet(result.stats, "pct_outliers")
                 = Ratio(100 * Len(result.rows), NRows(df))
           /\ df = ExampleTable =>
                 /\ result.index = <<6>>
                 /\ DictGet(result.stats, "upper_bound") = Ratio(17, 2)

\* outlier_detection by IQR has run on the table 1, 2, 3, 4, 5, 100 and
\* returned the row of 100
C14_Witness ==
    /\ op = "outlier_detection"
    /\ args.method = "iqr"
    /\ args.metric = "subscribers"
    /\ df = ExampleTable
    /\ result.rows = << <<Num(100)>> >>

\* the report of the last call has a line of the kind
HasLine(kind) == \E k \in 1..Len(result.lines) : result.lines[k].kind = kind

\* at least one ratio of engagement_metrics has both its columns
SomeRatio ==
    \E k \in 1..Len(RatioDefs) :
        HasColumn(df, RatioDefs[k][2]) /\ HasColumn(df, RatioDefs[k][3])

\* the sections of the report of the last call are those whose
\* prerequisite the working table meets
SectionsMatch ==
    /\ HasLine(TopHeader) <=> HasColumn(df, "subscribers")
    /\ HasLine(TopLine) => HasColumn(df, "subscribers")
    /\ HasLine(CategoryHeader) <=> HasColumn(df, "category")
    /\ HasLine(CategoryLine) => HasColumn(df, "category")
    /\ HasLine(EngagementHeader) <=> SomeRatio
    /\ HasLine(MetricLine) => SomeRatio
    /\ HasLine(CountryHeader) <=> HasColumn(df, "Country")
    /\ HasLine(CountryLine) => HasColumn(df, "Country")

\* C15: generate_report returns the text, without raising, whichever of
\* Youtuber, subscribers, category, video views, uploads and Country are
\* absent: the top-5 section is there exactly when subscribers exists, the
\* category section exactly when category exists, the engagement section
\* exactly when a ratio was computed, the country section exactly when
\* Country exists, and a section without its prerequisite adds no line.
C15_ReportForAnyColumns ==
    op = "generate_report" => (Returned(result) /\ SectionsMatch)

\* C19: generate_report is deterministic: a call right after another
\* returns the same text, and the text of a call is the same after
\* engagement_metrics as before it (the Features count included).
C19_ReportDeterministic ==
    [][/\ (op = "generate_report" /\ op' = "generate_report") => result' = result
       /\ op' = "engagement_metrics" =>
             /\ generate_report(df').raised = generate_report(df).raised
             /\ generate_report(df').lines = generate_report(df).lines]_vars

\* the cell of column i of the cleaned table t that row r of the argument a
\* gives: the number of the cell for subscribers, the number of the
\* 'video views' cell for video_views, the cell itself for the others
CleanedCell(a, t, r, i) ==
    LET vv == CHOOSE j \in 1..NCols(a) : Strip(a.columns[j]) = "video views"
    IN IF t.columns[i] = "video_views"
          /\ \E j \in 1..NCols(a) : Strip(a.columns[j]) = "video views"
       THEN to_numeric(a.rows[r][vv])
       ELSE IF t.columns[i] = "subscribers" THEN to_numeric(a.rows[r][i])
       ELSE a.rows[r][i]

\* t is the argument a cleaned
CleanedOk(a, t) ==
    LET hasViews == \E j \in 1..NCols(a) : Strip(a.columns[j]) = "video views"
        row(r) == [i \in 1..NCols(t) |-> CleanedCell(a, t, r, i)]
        firsts == SelectIdx({r \in 1..NRows(a) :
                                \A q \in 1..(r - 1) : row(q) # row(r)})
    IN /\ \A i \in 1..NCols(t) : Strip(t.columns[i]) = t.columns[i]
       /\ \A i \in 1..NCols(a) : t.columns[i] = Strip(a.columns[i])
       /\ HasColumn(t, "subscribers") =>
             \A r \in 1..NRows(t) : ~IsStr(t.rows[r][ColIdx(t, "subscribers")])
       /\ hasViews =>
             /\ HasColumn(t, "video_views")
             /\ \A r \in 1..NRows(t) : ~IsStr(t.rows[r][ColIdx(t, "video_views")])
       /\ \A q, r \in 1..NRows(t) : q # r => t.rows[q] # t.rows[r]
       /\ t.rows = [k \in 1..Len(firsts) |-> row(firsts[k])]
       /\ basic_cleaning(t) = t

\* C16: basic_cleaning returns a new table and leaves its argument as it
\* was; the names of the result are stripped, subscribers is numeric with
\* the values that do not parse missing, a numeric video_views column exists
\* whenever 'video views' does, no two rows are equal (the first occurrence
\* of each row is kept, in the original order), and cleaning the result
\* again returns an equal table.
C16_BasicCleaning ==
    [][op' = "basic_cleaning" =>
          /\ df' = df
          /\ result'.raised = ""
          /\ CleanedOk(args'.table, result'.table)]_vars

\* a table with a padded subscribers name, a text that does not parse and
\* two equal rows has been cleaned, and so has the result of a cleaning
C16_Witness ==
    /\ op = "basic_cleaning"
    /\ df.columns[1] = " subscribers "
    /\ NRows(df) = 2
    /\ df.rows[1] = df.rows[2]
    /\ df.rows[1][1] = Str("x")
    /\ args.table # df
    /\ NRows(result.table) = 1

\* what the validator operation o returns on the table d with the
\* arguments a
ResultOf(o, d, a, seed) ==
    CASE o = "check_missing_values" -> check_missing_values(d, a.threshold)
      [] o = "check_duplicates" -> check_duplicates(d)
      [] o = "check_data_types" -> check_data_types(d, a.expected)
      [] o = "check_value_ranges" -> check_value_ranges(d, a.ranges)
      [] o = "check_required_columns" -> check_required_columns(d, a.required, seed)
      [] o = "validate_all" ->
            validate_all(d, a.required, a.expected, a.ranges, a.threshold, seed)
      [] o = "generate_quality_report" -> generate_quality_report(d)

\* C17: every validator operation (the five checks, validate_all,
\* generate_quality_report), after any operations before it, leaves the
\* table as it was and returns what it returns on that table, whichever
\* operations ran before.
C17_ValidatorLeavesTable ==
    [][/\ df' = df
       /\ result' = ResultOf(op', df', args', hashseed')]_vars

\* generate_quality_report has run on a table with a text column that has
\* a missing value
C17_Witness ==
    /\ op = "generate_quality_report"
    /\ \E i \in 1..NCols(df) : HasStr(df, i) /\ NullCount(df, i) > 0
    /\ Len(result.lines) > 0

ReadOnlyOps ==
    {"get_top_performers", "outlier_detection", "category_analysis",
     "country_analysis", "correlation_analysis"}

RatioNames == {RatioDefs[k][1] : k \in 1..Len(RatioDefs)}

\* C18: get_top_performers, outlier_detection (either method),
\* category_analysis, country_analysis and correlation_analysis leave the
\* working table as it was; the table changes only in engagement_metrics
\* (called directly or by generate_report or export_insights), which only
\* adds numeric ratio columns: the rows stay as many and every column that
\* was there keeps its name, its place and its values.
C18_OnlyEngagementWrites ==
    [][/\ op' \in ReadOnlyOps => df' = df
       /\ df' # df => op' \in {"engagement_metrics", "generate_report",
                                "export_insights"}
       /\ NRows(df') = NRows(df)
       /\ NCols(df') >= NCols(df)
       /\ \A i \in 1..NCols(df) :
             /\ df'.columns[i] = df.columns[i]
             /\ \A r \in 1..NRows(df) : df'.rows[r][i] = df.rows[r][i]
       /\ \A i \in (NCols(df) + 1)..NCols(df') :
             /\ df'.columns[i] \in RatioNames
             /\ \A r \in 1..NRows(df') : ~IsStr(df'.rows[r][i])]_vars

\* correlation_analysis has run on a table to which engagement_metrics had
\* added a ratio column
C18_Witness ==
    /\ op = "correlation_analysis"
    /\ HasColumn(df, "views_per_upload")
    /\ Len(result.columns) = 3

\* C20: after YouTubeAnalyzer(table) no column name has leading or trailing
\* whitespace, and every column whose stripped name is subscribers,
\* video views or uploads is numeric, its values that do not parse missing
\* (also when the name was padded, as ' subscribers '); the construction
\* changes neither the number of rows nor the number of columns.
C20_ConstructionNormalizes ==
    op = "__init__" =>
        /\ NRows(df) = NRows(args.table)
        /\ NCols(df) = NCols(args.table)
        /\ \A i \in 1..NCols(df) :
              /\ df.columns[i] = Strip(args.table.columns[i])
              /\ Strip(df.columns[i]) = df.columns[i]
              /\ \A r \in 1..NRows(df) :
                    df.rows[r][i] =
                       IF \E k \in 1..3 : df.columns[i] = numeric_cols[k]
                       THEN to_numeric(args.table.rows[r][i])
                       ELSE args.table.rows[r][i]

\* the rows of the working table whose cell in column g is the text key
\* and whose cell in column i is a number
Members(g, key, i) ==
    {r \in 1..NRows(df) : df.rows[r][g] = Str(key) /\ IsNum(df.rows[r][i])}

\* the texts of column g
GroupsOf(g) == {df.rows[r][g].s : r \in {q \in 1..NRows(df) : IsStr(df.rows[q][g])}}

\* sum of the numbers of column i over the rows of S
SumOver(S, i) ==
    LET idx == SelectIdx(S) IN SumSeq([k \in 1..Len(idx) |-> df.rows[idx[k]][i].n])

\* the value of rank k (from 0) among the numbers of column i over the rows
\* of S: fewer than k + 1 rows are below it and more than k are not above it
Ranked(S, i, k) ==
    LET x == CHOOSE x \in {df.rows[r][i].n : r \in S} :
                /\ Cardinality({r \in S : df.rows[r][i].n < x}) <= k
                /\ Cardinality({r \in S : df.rows[r][i].n <= x}) > k
    IN x

\* mean, median, sum and count of column i in the group key of column g
MeanIn(g, key, i) ==
    LET S == Members(g, key, i)
    IN IF S = {} THEN NA ELSE Ratio(SumOver(S, i), Cardinality(S))

MedianIn(g, key, i) ==
    LET S == Members(g, key, i)
        n == Cardinality(S)
    IN IF S = {} THEN NA
       ELSE Ratio(Ranked(S, i, (n - 1) \div 2) + Ranked(S, i, n \div 2), 2)

SumIn(g, key, i) == Num(SumOver(Members(g, key, i), i))
CountIn(g, key, i) == Num(Cardinality(Members(g, key, i)))

\* the series holds one pair per group, larger values first, NaN last
Descending(series) ==
    \A k, l \in 1..Len(series) :
        k < l =>
           /\ series[k][1] # series[l][1]
           /\ ~isnull(series[l][2]) =>
                 ~isnull(series[k][2]) /\ ~FGreater(series[l][2], series[k][2])

\* the entry of metric column i grouped by column g is as claimed
MetricEntryOk(e, g, i) ==
    /\ SeqToSet(e.mean) = {<<key, MeanIn(g, key, i)>> : key \in GroupsOf(g)}
    /\ SeqToSet(e.median) = {<<key, MedianIn(g, key, i)>> : key \in GroupsOf(g)}
    /\ SeqToSet(e.total) = {<<key, SumIn(g, key, i)>> : key \in GroupsOf(g)}
    /\ SeqToSet(e.count) = {<<key, CountIn(g, key, i)>> : key \in GroupsOf(g)}
    /\ Descending(e.mean) /\ Descending(e.median) /\ Descending(e.total)
    /\ Len(e.count) = Cardinality(GroupsOf(g))

\* the dict of the last call has, for exactly the metrics present, the
\* per-group mean, median and sum in descending order and the count
PerMetricStats(g) ==
    /\ Keys(result.stats) = PresentMetrics
    /\ \A k \in 1..Len(result.stats) :
          MetricEntryOk(result.stats[k][2], g, ColIdx(df, result.stats[k][1]))

CompleteRatios(d) ==
    (IF HasColumn(d, "video views") /\ HasColumn(d, "subscribers")
     THEN {"views_per_subscriber"} ELSE {})
    \cup (IF HasColumn(d, "video views") /\ HasColumn(d, "uploads")
          THEN {"views_per_upload"} ELSE {})
    \cup (IF HasColumn(d, "subscribers") /\ HasColumn(d, "uploads")
          THEN {"subs_per_upload"} ELSE {})

LinesOf(kind) ==
    SelectIdx({k \in 1..Len(result.lines) : result.lines[k].kind = kind})

\* C23: the numbers of generate_quality_report agree with the checks on the
\* same table: the missing counts it lists sum to check_missing_values'
\* total_missing, it lists columns_with_missing columns, the line
\* 'No missing values detected' is there exactly when total_missing = 0,
\* and the duplicate count it shows is check_duplicates' n_duplicates.
C23_ReportAgreesWithChecks ==
    op = "generate_quality_report" =>
        LET missing == check_missing_values(df, DefaultThreshold).stats
            listed == LinesOf(MissingLine)
            dups == LinesOf(DuplicateLine)
        IN /\ Returned(result)
           /\ SumSeq([k \in 1..Len(listed) |-> result.lines[listed[k]].n])
                 = DictGet(missing, "total_missing")
           /\ Len(listed) = DictGet(missing, "columns_with_missing")
           /\ HasLine("No missing values detected")
                 <=> DictGet(missing, "total_missing") = 0
           /\ Len(dups) = 1
           /\ result.lines[dups[1]].n
                 = DictGet(check_duplicates(df).stats, "n_duplicates")

\* generate_quality_report has run on a table with a missing value and a
\* repeated row
C23_Witness ==
    /\ op = "generate_quality_report"
    /\ LinesOf(MissingLine) # <<>>
    /\ NRows(df) = 2
    /\ df.rows[1] = df.rows[2]

(***************************************************************************)
(* run_basic_eda (src/eda.py): the charts of the exploratory run           *)
(***************************************************************************)

\* the charts in the order in which run_basic_eda draws them
Charts ==
    <<"top_categories", "subscribers_dist", "top20_by_subscribers",
      "subs_vs_video_views_scatter", "correlation_heatmap", "top_countries",
      "uploads_distribution", "median_subs_by_category",
      "subs_boxplot_by_category", "top20_by_video_views",
      "created_year_counts">>

\* the run so far: the exception that left the function (if any), the
\* charts whose drawing was started, the charts that were written to the
\* output directory, and the table
Eda(raised, attempted, saved, table) ==
    [raised |-> raised, attempted |-> attempted, saved |-> saved, table |-> table]

\* plt.figure ... savefig/show ... close for one chart; fails is the set of
\* charts whose drawing raises in this run, guarded says whether the block
\* is inside try/except Exception: pass
Draw(s, name, guarded, fails, out) ==
    LET started == [s EXCEPT !.attempted = Append(@, name)]
    IN IF name \in fails
       THEN IF guarded THEN started ELSE [started EXCEPT !.raised = "Exception"]
       ELSE IF out THEN [started EXCEPT !.saved = Append(@, name)] ELSE started

\* pd.to_numeric(df[name], errors='coerce')
NumericOf(d, name) ==
    [r \in 1..NRows(d) |-> to_numeric(d.rows[r][ColIdx(d, name)])]

\* lines 22-30: df['category'] is read outside any try
top_categories(s, fails, out) ==
    IF ~HasColumn(s.table, "category")
    THEN [s EXCEPT !.raised = "KeyError",
                   !.attempted = Append(@, "top_categories")]
    ELSE Draw(s, "top_categories", FALSE, fails, out)

\* lines 33-43, outside any try
subscribers_dist(s, fails, out) ==
    IF HasColumn(s.table, "subscribers")
    THEN Draw(s, "subscribers_dist", FALSE, fails, out)
    ELSE s

\* lines 46-61
top20_by_subscribers(s, fails, out) ==
    IF HasColumn(s.table, "subscribers") /\ HasColumn(s.table, "Youtuber")
    THEN Draw([s EXCEPT !.table = SetColumn(@, "subscribers_num",
                                            NumericOf(s.table, "subscribers"))],
              "top20_by_subscribers", TRUE, fails, out)
    ELSE s

\* 'video_views' or 'video views'
HasViews(d) == HasColumn(d, "video_views") \/ HasColumn(d, "video views")

ViewsName(d) == IF HasColumn(d, "video_views") THEN "video_views" ELSE "video views"

\* lines 64-87
subs_vs_video_views_scatter(s, fails, out) ==
    IF HasColumn(s.table, "subscribers") /\ HasViews(s.table)
    THEN Draw(s, "subs_vs_video_views_scatter", TRUE, fails, out)
    ELSE s

\* df.select_dtypes(include=['number']).shape[1]
NumberColumns(d) ==
    Cardinality({i \in 1..NCols(d) : dtype(d, i) \in {"int64", "float64"}})

\* lines 90-104
correlation_heatmap(s, fails, out) ==
    IF NumberColumns(s.table) >= 2
    THEN Draw(s, "correlation_heatmap", TRUE, fails, out)
    ELSE s

\* lines 108-122
top_countries(s, fails, out) ==
    IF HasColumn(s.table, "Country")
    THEN Draw(s, "top_countries", TRUE, fails, out)
    ELSE s

\* lines 125-138
uploads_distribution(s, fails, out) ==
    IF HasColumn(s.table, "uploads")
    THEN Draw(s, "uploads_distribution", TRUE, fails, out)
    ELSE s

\* lines 141-158
median_subs_by_category(s, fails, out) ==
    IF HasColumn(s.table, "category") /\ HasColumn(s.table, "subscribers")
    THEN Draw(s, "median_subs_by_category", TRUE, fails, out)
    ELSE s

\* lines 161-177: the numeric column is added to a copy
subs_boxplot_by_category(s, fails, out) ==
    IF HasColumn(s.table, "category") /\ HasColumn(s.table, "subscribers")
    THEN Draw(s, "subs_boxplot_by_category", TRUE, fails, out)
    ELSE s

\* lines 180-198
top20_by_video_views(s, fails, out) ==
    IF HasViews(s.table) /\ HasColumn(s.table, "Youtuber")
    THEN Draw([s EXCEPT !.table = SetColumn(@, "video_views_num",
                                            NumericOf(s.table, ViewsName(s.table)))],
              "top20_by_video_views", TRUE, fails, out)
    ELSE s

\* lines 201-217
created_year_counts(s, fails, out) ==
    IF HasColumn(s.table, "created_year")
    THEN Draw(s, "created_year_counts", TRUE, fails, out)
    ELSE s

\* the two blocks outside try: an exception of the first leaves the function
Unguarded(s, fails, out) ==
    LET first == top_categories(s, fails, out)
    IN IF first.raised # "" THEN first ELSE subscribers_dist(first, fails, out)

\* the nine blocks inside try/except
Guarded(s, fails, out) ==
    created_year_counts(
      top20_by_video_views(
        subs_boxplot_by_category(
          median_subs_by_category(
            uploads_distribution(
              top_countries(
                correlation_heatmap(
                  subs_vs_video_views_scatter(
                    top20_by_subscribers(s, fails, out), fails, out),
                  fails, out),
                fails, out),
              fails, out),
            fails, out),
          fails, out),
        fails, out),
      fails, out)

\* run_basic_eda(csv_path, output_dir) on the table read from csv_path
run_basic_eda(d, fails, out) ==
    LET open == Unguarded(Eda("", <<>>, <<>>, d), fails, out)
    IN IF open.raised # "" THEN open ELSE Guarded(open, fails, out)

EdaColumnValues(c) ==
    CASE c = "Youtuber" -> {Str("A")}
      [] c = "category" -> {Str("Music"), NA}
      [] c = "subscribers" -> {Num(1), NA}
      [] c = "Country" -> {Str("US")}
      [] OTHER -> {Num(2)}

EdaSchemas ==
    {<<"Youtuber", "category", "subscribers", "video views", "Country",
       "uploads", "created_year">>,
     <<"Youtuber", "subscribers", "video_views">>,
     <<"category", "subscribers">>,
     <<"Youtuber", "category", "video_views">>,
     <<"Country", "uploads">>,
     <<"category">>}

EdaRowsOf(schema) ==
    {row \in [1..Len(schema) -> {Str("A"), Str("Music"), Str("US"), NA, Num(1), Num(2)}] :
        \A i \in 1..Len(schema) : row[i] \in EdaColumnValues(schema[i])}

\* the tables read from the file: at least one data row
EdaTables ==
    UNION {{[columns |-> schema, rows |-> rs] : rs \in [1..k -> EdaRowsOf(schema)]} :
              schema \in EdaSchemas, k \in 1..MaxRows}

\* the runs in which no chart or one chart fails to draw
Failures == {{}} \cup {{Charts[k]} : k \in 1..Len(Charts)}

InitEda ==
    /\ df \in EdaTables
    /\ hashseed = 0
    /\ op = "read_csv"
    /\ args = NoArgs
    /\ result = Eda("", <<>>, <<>>, df)

RunBasicEda ==
    /\ op = "read_csv"
    /\ \E fails \in Failures, out \in BOOLEAN :
          LET r == run_basic_eda(df, fails, out)
          IN /\ op' = "run_basic_eda"
             /\ args' = [table |-> df, fails |-> fails, output_dir |-> out]
             /\ result' = r
             /\ df' = r.table
    /\ UNCHANGED hashseed

NextEda == RunBasicEda

SpecEda == InitEda /\ [][NextEda]_vars

\* the charts the columns of the table allow
Plottable(d) ==
    {"top_categories"}
    \cup (IF HasColumn(d, "subscribers") THEN {"subscribers_dist"} ELSE {})
    \cup (IF HasColumn(d, "subscribers") /\ HasColumn(d, "Youtuber")
          THEN {"top20_by_subscribers"} ELSE {})
    \cup (IF HasColumn(d, "subscribers") /\ HasViews(d)
          THEN {"subs_vs_video_views_scatter"} ELSE {})
    \cup (IF NumberColumns(d) >= 2 THEN {"correlation_heatmap"} ELSE {})
    \cup (IF HasColumn(d, "Country") THEN {"top_countries"} ELSE {})
    \cup (IF HasColumn(d, "uploads") THEN {"uploads_distribution"} ELSE {})
    \cup (IF HasColumn(d, "category") /\ HasColumn(d, "subscribers")
          THEN {"median_subs_by_category", "subs_boxplot_by_category"} ELSE {})
    \cup (IF HasViews(d) /\ HasColumn(d, "Youtuber")
          THEN {"top20_by_video_views"} ELSE {})
    \cup (IF HasColumn(d, "created_year") THEN {"created_year_counts"} ELSE {})

\* C24: in run_basic_eda a failure while producing one chart (its column is
\* absent, or its drawing raises) does not abort the run: every chart the
\* table allows is attempted and the function returns the table.
C24_ChartFailureDoesNotAbort ==
    op = "run_basic_eda" =>
        /\ Returned(result)
        /\ Plottable(args.table) \subseteq SeqToSet(result.attempted)
        /\ SubSeq(result.table.columns, 1, NCols(args.table)) = args.table.columns

\* the guarded charts: a failure of one of them is swallowed, the later
\* charts are attempted and the table is returned
C24_GuardedFailureSwallowed ==
    (op = "run_basic_eda" /\ HasColumn(args.table, "category")
       /\ args.fails \cap {"top_categories", "subscribers_dist"} = {})
      => /\ Returned(result)
         /\ Plottable(args.table) \subseteq SeqToSet(result.attempted)

(***************************************************************************)
(* The command line (src/cli.py) and summarize (src/load_data.py)          *)
(***************************************************************************)

\* a pandas Series and a plain dict of <<name, value>> items
Series(items) == [kind |-> "Series", items |-> items]
PlainDict(items) == [kind |-> "dict", items |-> items]

\* Series.to_dict()
to_dict(series) == PlainDict(series.items)

\* df.isnull().sum()
MissingCounts(d) == Series([i \in 1..NCols(d) |-> <<d.columns[i], NullCount(d, i)>>])

\* df.dtypes.astype(str)
DtypeStrings(d) == Series([i \in 1..NCols(d) |-> <<d.columns[i], dtype(d, i)>>])

\* load_data.py 22-29
summarize(d) ==
    [shape |-> <<NRows(d), NCols(d)>>,
     columns |-> d.columns,
     dtypes |-> to_dict(DtypeStrings(d)),
     missing_counts |-> to_dict(MissingCounts(d))]

\* what a command, and main, leave: the exception (for main: the one it
\* caught) and the return code
Exit(raised, code) == [raised |-> raised, code |-> code]

\* load_csv(path): the table in the file, or FileNotFoundError
load_csv(d, exists) ==
    IF exists THEN [raised |-> "", table |-> d]
    ELSE [raised |-> "FileNotFoundError", table |-> d]

\* cli.py 104-114: the items of the dtypes dict, then missing.sum() and
\* missing[missing > 0] on summary['missing_counts']; sum is a method of a
\* Series, a dict has no such attribute
VerboseBlock(summary) ==
    LET missing == summary.missing_counts
    IN IF missing.kind # "Series" THEN Exit("AttributeError", 0)
       ELSE Exit("", 0)

\* cli.py 89-125
cmd_summary(d, exists, verbose) ==
    LET loaded == load_csv(d, exists)
        summary == summarize(loaded.table)
    IN IF loaded.raised # "" THEN Exit(loaded.raised, 0)
       ELSE IF verbose THEN VerboseBlock(summary)
       ELSE Exit("", 0)

\* cli.py 75-86: run_basic_eda reads the file itself and writes the charts
\* to the output directory
cmd_analyze(d, exists, fails) ==
    IF ~exists THEN Exit("FileNotFoundError", 0)
    ELSE Exit(run_basic_eda(d, fails, TRUE).raised, 0)

\* cli.py 128-147
cmd_clean(d, exists) ==
    LET loaded == load_csv(d, exists)
    IN IF loaded.raised # "" THEN Exit(loaded.raised, 0)
       ELSE Exit("", 0)

\* the subcommands; "" is a command line without one
Commands == {"analyze", "summary", "clean"}

\* cli.py 56-72
main(d, command, exists, verbose, fails) ==
    IF command = "" THEN Exit("", 1)
    ELSE LET r == CASE command = "analyze" -> cmd_analyze(d, exists, fails)
                    [] command = "summary" -> cmd_summary(d, exists, verbose)
                    [] command = "clean" -> cmd_clean(d, exists)
         IN IF r.raised # "" THEN Exit(r.raised, 1) ELSE Exit("", r.code)

\* the file at --csv holds df
InitCli ==
    /\ df \in EdaTables
    /\ hashseed = 0
    /\ op = "shell"
    /\ args = NoArgs
    /\ result = Exit("", 0)

Main ==
    \E command \in Commands \cup {""}, exists \in BOOLEAN :
      \E verbose \in (IF command = "summary" THEN BOOLEAN ELSE {FALSE}),
         fails \in (IF command = "analyze" THEN Failures ELSE {{}}) :
        /\ op' = "main"
        /\ args' = [command |-> command, exists |-> exists,
                    verbose |-> verbose, fails |-> fails]
        /\ result' = main(df, command, exists, verbose, fails)
        /\ UNCHANGED <<df, hashseed>>

NextCli == Main

SpecCli == InitCli /\ [][NextCli]_vars

\* C25: main returns 0 when the selected command completes and 1 when no
\* command is given or the command raises; for a file that loads, the
\* summary command returns 0 without and with the verbose flag.
C25_ExitCodes ==
    op = "main" =>
        /\ result.code \in {0, 1}
        /\ result.code = 1 <=> (args.command = "" \/ result.raised # "")
        /\ (args.command = "summary" /\ args.exists) => result.code = 0

\* the return code follows the outcome of the command, and the summary of
\* a file that loads returns 0 without the verbose flag
C25_ExitCodesNotVerbose ==
    op = "main" =>
        /\ result.code = 1 <=> (args.command = "" \/ result.raised # "")
        /\ (args.command = "summary" /\ args.exists /\ ~args.verbose)
              => result.code = 0

(***************************************************************************)
(* A DataValidator and a YouTubeAnalyzer built on the same table: both     *)
(* keep the table they are given (validation.py:28, analysis.py:18), so    *)
(* df is the one table both work on                                        *)
(***************************************************************************)

\* what the validator returns for the table as it is now
ValidatorResults(d) ==
    [missing |-> check_missing_values(d, DefaultThreshold),
     duplicates |-> check_duplicates(d),
     all |-> validate_all(d, <<>>, <<>>, <<>>, DefaultThreshold, 0),
     report |-> generate_quality_report(d)]

\* DataValidator(df) and its first calls; args keeps the table as it was
\* then and whether the analyzer has been built
InitShared ==
    /\ df \in AnalyzerTables
    /\ hashseed = 0
    /\ op = "DataValidator"
    /\ args = [table |-> df, analyzer |-> FALSE]
    /\ result = ValidatorResults(df)

\* YouTubeAnalyzer(df) on the table the validator holds
ConstructShared ==
    /\ ~args.analyzer
    /\ op' = "YouTubeAnalyzer"
    /\ args' = [args EXCEPT !.analyzer = TRUE]
    /\ df' = prepare_data(df)
    /\ UNCHANGED <<hashseed, result>>

EngagementMetricsShared ==
    /\ args.analyzer
    /\ op' = "engagement_metrics"
    /\ df' = engagement_metrics(df).table
    /\ UNCHANGED <<hashseed, args, result>>

GenerateReportShared ==
    /\ args.analyzer
    /\ op' = "generate_report"
    /\ df' = generate_report(df).table
    /\ UNCHANGED <<hashseed, args, result>>

\* check_missing_values, check_duplicates, validate_all and
\* generate_quality_report are called again
ValidateShared ==
    /\ op' = "validate"
    /\ result' = ValidatorResults(df)
    /\ UNCHANGED <<df, hashseed, args>>

NextShared ==
    \/ ConstructShared
    \/ EngagementMetricsShared
    \/ GenerateReportShared
    \/ ValidateShared

SpecShared == InitShared /\ [][NextShared]_vars

\* C26: the results of a validator are not affected by an analyzer built on
\* the same table: check_missing_values, check_duplicates, validate_all and
\* generate_quality_report return what they returned before the analyzer
\* was constructed, after its construction and after any of its operations.
C26_ValidatorUnaffected == result = ValidatorResults(args.table)

\* until the analyzer is built the validator returns the same results
C26_UnaffectedBeforeAnalyzer ==
    ~args.analyzer => result = ValidatorResults(args.table)

====
